---- MODULE Spec2Model ----
(***************************************************************************)
(* Model of the change-history parsing core of trac_scraper                *)
(* (src/trac_change_history.py) and of the block search of the diagnostic  *)
(* script (src/debug_trac_scraper.py).                                     *)
(*                                                                         *)
(* Text.  A Python str is a sequence of symbols.  A symbol stands for one   *)
(* fixed run of word characters ("change", "d", "from", "v3"; every digit  *)
(* is a symbol of its own) or for one single other character (" ", ":",    *)
(* "-", "#").  Words that share a stem are split at the stem ("changed" is *)
(* "change" "d"), so that equality, concatenation, prefix test, substring  *)
(* search, strip() and the regular expressions of the source, evaluated on *)
(* symbol sequences, are those of the character strings they stand for.    *)
(*                                                                         *)
(* Optional values.  Python's None is the empty tuple and a present value  *)
(* v is the 1-tuple <<v>>.                                                 *)
(*                                                                         *)
(* Documents.  A parsed document (BeautifulSoup tree) is the sequence of   *)
(* its nodes in document order (pre-order); every node names its parent by *)
(* index, 0 being the BeautifulSoup object itself.  Text nodes            *)
(* (NavigableString) have tag "#text".                                     *)
(***************************************************************************)
EXTENDS Integers, Sequences, FiniteSets, TLC

\* ------------------------------------------------------------------ bounds
MaxBlocks == 2
MaxItems == 2
MaxEms == 3
MaxHeadings == 4

\* ------------------------------------------------------- optional values
None == <<>>
Some(v) == <<v>>

\* ----------------------------------------------------------------- text
WS == {" ", "\n"}

\* str.startswith(prefix)
StartsWith(s, prefix) ==
  /\ Len(prefix) <= Len(s)
  /\ SubSeq(s, 1, Len(prefix)) = prefix

\* `pat in s` on str
Contains(s, pat) ==
  \E k \in 0..(Len(s) - Len(pat)) : SubSeq(s, k + 1, k + Len(pat)) = pat

\* str.strip()
RECURSIVE LStrip(_)
LStrip(s) == IF s # <<>> /\ Head(s) \in WS THEN LStrip(Tail(s)) ELSE s

RECURSIVE RStrip(_)
RStrip(s) ==
  IF s # <<>> /\ s[Len(s)] \in WS THEN RStrip(SubSeq(s, 1, Len(s) - 1)) ELSE s

Strip(s) == RStrip(LStrip(s))

\* sep.join(parts)
RECURSIVE Join(_, _)
Join(sep, parts) ==
  IF parts = <<>> THEN <<>>
  ELSE IF Len(parts) = 1 THEN parts[1]
  ELSE parts[1] \o sep \o Join(sep, Tail(parts))

\* ------------------------------------------------------------ documents
Elem(tag, class, id, par) ==
  [tag |-> tag, class |-> class, id |-> id, href |-> <<>>, title |-> <<>>,
   text |-> <<>>, parent |-> par]

\* <a href=... title=...>
Anchor(href, title, par) ==
  [tag |-> "a", class |-> <<>>, id |-> <<>>, href |-> href, title |-> title,
   text |-> <<>>, parent |-> par]

TextNode(s, par) ==
  [tag |-> "#text", class |-> <<>>, id |-> <<>>, href |-> <<>>,
   title |-> <<>>, text |-> s, parent |-> par]

\* tag.get("class", [])
GetClass(node) == node.class

\* tag.get("id", "")
GetId(node) == IF node.id = None THEN <<>> ELSE node.id[1]

\* a is a proper ancestor of n (0, the document, is an ancestor of every node)
RECURSIVE IsAncestor(_, _, _)
IsAncestor(d, a, n) ==
  IF n = 0 THEN FALSE
  ELSE d[n].parent = a \/ IsAncestor(d, a, d[n].parent)

Indices(d) == [k \in 1..Len(d) |-> k]

\* root.find_all(pred): the element descendants of root satisfying pred, in
\* document order
FindAll(d, root, matching) ==
  SelectSeq(Indices(d),
            LAMBDA n : /\ d[n].tag # "#text"
                       /\ IsAncestor(d, root, n)
                       /\ n \in matching)

\* root.find_all(pred, recursive=False): direct children only
FindAllChildren(d, root, matching) ==
  SelectSeq(Indices(d),
            LAMBDA n : /\ d[n].tag # "#text"
                       /\ d[n].parent = root
                       /\ n \in matching)

\* root.find(pred): the first match as an optional node index
Find(d, root, matching) ==
  LET all == FindAll(d, root, matching) IN
  IF all = <<>> THEN None ELSE Some(all[1])

\* class_="token": some class token equals it
HasClassToken(node, token) ==
  \E k \in 1..Len(GetClass(node)) : GetClass(node)[k] = token

\* the strings below root in document order (Tag._all_strings); with strip
\* every string is stripped and the empty ones are skipped
AllStrings(d, root, strip) ==
  LET texts == SelectSeq(Indices(d),
                         LAMBDA n : /\ d[n].tag = "#text"
                                    /\ IsAncestor(d, root, n)
                                    /\ (strip => Strip(d[n].text) # <<>>))
  IN [k \in 1..Len(texts) |->
        IF strip THEN Strip(d[texts[k]].text) ELSE d[texts[k]].text]

\* tag.get_text(sep, strip=strip)
GetText(d, root, sep, strip) == Join(sep, AllStrings(d, root, strip))

IsTag(node, tag) == node.tag = tag

\* ------------------------------------------------- regular expressions
Digits == {"0", "1", "2", "3", "4", "5", "6", "7", "8", "9"}

DigitVal(c) ==
  CASE c = "0" -> 0 [] c = "1" -> 1 [] c = "2" -> 2 [] c = "3" -> 3
    [] c = "4" -> 4 [] c = "5" -> 5 [] c = "6" -> 6 [] c = "7" -> 7
    [] c = "8" -> 8 [] c = "9" -> 9

\* int(s) of a string of digits
RECURSIVE ParseInt(_)
ParseInt(s) ==
  IF s = <<>> THEN 0
  ELSE 10 * ParseInt(SubSeq(s, 1, Len(s) - 1)) + DigitVal(s[Len(s)])

\* the characters that are not word characters (\W)
NonWord == WS \cup {":", "-", "#", "+", "."}

At(s, k) == IF k >= 1 /\ k <= Len(s) THEN s[k] ELSE ""

AllDigits(s, from, n) == \A j \in from..(from + n - 1) : At(s, j) \in Digits

\* the end of the longest run of symbols of S that starts at from (from - 1
\* when s[from] is not in S)
RECURSIVE RunEnd(_, _, _)
RunEnd(s, from, S) ==
  IF from <= Len(s) /\ s[from] \in S THEN RunEnd(s, from + 1, S) ELSE from - 1

\* the end of the longest run of symbols outside S that starts at from
RECURSIVE RunEndNot(_, _, _)
RunEndNot(s, from, S) ==
  IF from <= Len(s) /\ s[from] \notin S
  THEN RunEndNot(s, from + 1, S) ELSE from - 1

\* the least element of a non-empty set of numbers (re.search: leftmost match)
Least(S) == CHOOSE k \in S : \A j \in S : k <= j

\* re.search(r"comment:(\d+)", s): group 1, as an optional string
SearchCommentNum(s) ==
  LET hits == {k \in 1..Len(s) : /\ s[k] = "comment"
                                 /\ At(s, k + 1) = ":"
                                 /\ At(s, k + 2) \in Digits}
  IN IF hits = {} THEN None
     ELSE LET k == Least(hits)
          IN Some(SubSeq(s, k + 2, RunEnd(s, k + 2, Digits)))

\* re.search(r"#comment:\d+", s) finds a match
MatchesCommentHref(s) ==
  \E k \in 1..Len(s) : /\ s[k] = "#"
                       /\ At(s, k + 1) = "comment"
                       /\ At(s, k + 2) = ":"
                       /\ At(s, k + 3) \in Digits

\* \d{4}-\d{2}-\d{2} matches at position k
DateAt(s, k) ==
  /\ AllDigits(s, k, 4) /\ At(s, k + 4) = "-"
  /\ AllDigits(s, k + 5, 2) /\ At(s, k + 7) = "-"
  /\ AllDigits(s, k + 8, 2)

\* re.search(r"\d{4}-\d{2}-\d{2}", s) finds a match
MatchesDate(s) == \E k \in 1..Len(s) : DateAt(s, k)

\* \d{4}-\d{2}-\d{2}[T ]\d{2}:\d{2} matches at position k (16 characters)
DateTimeAt(s, k) ==
  /\ DateAt(s, k)
  /\ At(s, k + 10) \in {"T", " "}
  /\ AllDigits(s, k + 11, 2) /\ At(s, k + 13) = ":"
  /\ AllDigits(s, k + 14, 2)

\* re.search(r"(\d{4}-\d{2}-\d{2}[T ]\d{2}:\d{2}(?::\d{2})?
\*             (?:Z|[+-]\d{2}:\d{2})?)", s): group 1, as an optional string
SearchTimestamp(s) ==
  LET hits == {k \in 1..Len(s) : DateTimeAt(s, k)}
  IN IF hits = {} THEN None
     ELSE LET k == Least(hits)
              e1 == k + 15
              e2 == IF At(s, e1 + 1) = ":" /\ AllDigits(s, e1 + 2, 2)
                    THEN e1 + 3 ELSE e1
              e3 == IF At(s, e2 + 1) = "Z" THEN e2 + 1
                    ELSE IF /\ At(s, e2 + 1) \in {"+", "-"}
                            /\ AllDigits(s, e2 + 2, 2)
                            /\ At(s, e2 + 4) = ":"
                            /\ AllDigits(s, e2 + 5, 2)
                    THEN e2 + 6 ELSE e2
          IN Some(SubSeq(s, k, e3))

\* re.search(r"\bby\s+(\S+)", s): group 1, as an optional string
SearchAuthor(s) ==
  LET hits == {k \in 1..Len(s) :
                 /\ s[k] = "by"
                 /\ (k = 1 \/ s[k - 1] \in NonWord)
                 /\ At(s, k + 1) \in WS
                 /\ RunEnd(s, k + 1, WS) < Len(s)}
  IN IF hits = {} THEN None
     ELSE LET k == Least(hits)
              from == RunEnd(s, k + 1, WS) + 1
          IN Some(SubSeq(s, from, RunEndNot(s, from, WS)))

\* re.search(r"\bcomment\b", s) finds a match
MatchesCommentWord(s) ==
  \E k \in 1..Len(s) : /\ s[k] = "comment"
                       /\ (k = 1 \/ s[k - 1] \in NonWord)
                       /\ (k = Len(s) \/ s[k + 1] \in NonWord)

\* class_=re.compile(...): the pattern is searched in every class token (a
\* pattern without white space matches the joined class string only where it
\* matches one of the tokens)
ClassTokens(node) == {GetClass(node)[k] : k \in 1..Len(GetClass(node))}

\* --------------------------------------------- _parse_change_header (62-103)
\* Comment number  (lines 75-79)
HeaderCommentNum(d, h3) ==
  LET span == Find(d, h3, {m \in DOMAIN d : LET nd == d[m] IN IsTag(nd, "span")
                                                              /\ HasClassToken(nd, <<"cnum">>)})
      cnum_tag ==
        IF span # None THEN span
        ELSE Find(d, h3, {m \in DOMAIN d : LET nd == d[m] IN /\ IsTag(nd, "a")
                                                             /\ nd.href # None
                                                             /\ MatchesCommentHref(nd.href[1])})
  IN IF cnum_tag = None THEN None
     ELSE LET m == SearchCommentNum(GetText(d, cnum_tag[1], <<>>, FALSE))
          IN IF m = None THEN None ELSE Some(ParseInt(m[1]))

\* HeaderTimestamp scanning the text first and reading the title attribute
\* only when the text has no date and time
HeaderTimestampTextFirst(d, h3) ==
  LET time_tag == Find(d, h3, {m \in DOMAIN d : LET nd == d[m] IN /\ IsTag(nd, "a")
                                                                  /\ nd.title # None
                                                                  /\ MatchesDate(nd.title[1])})
      m == SearchTimestamp(GetText(d, h3, <<" ">>, TRUE))
  IN IF m # None THEN m
     ELSE IF time_tag # None THEN Some(Strip(d[time_tag[1]].title[1]))
     ELSE None

\* Timestamp  (lines 82-92)
HeaderTimestamp(d, h3) ==
  LET time_tag == Find(d, h3, {m \in DOMAIN d : LET nd == d[m] IN /\ IsTag(nd, "a")
                                                                  /\ nd.title # None
                                                                  /\ MatchesDate(nd.title[1])})
  IN IF time_tag # None THEN Some(Strip(d[time_tag[1]].title[1]))
     ELSE SearchTimestamp(GetText(d, h3, <<" ">>, TRUE))

\* HeaderAuthor reading the text after "by" first and the author span only
\* when the text names nobody
HeaderAuthorTextFirst(d, h3) ==
  LET author_tag ==
        Find(d, h3, {m \in DOMAIN d : LET nd == d[m] IN
                                        /\ IsTag(nd, "span")
                                        /\ \E t \in ClassTokens(nd) :
                                              Contains(t, <<"trac", "-", "author">>)})
      m == SearchAuthor(GetText(d, h3, <<" ">>, TRUE))
  IN IF m # None THEN m
     ELSE IF author_tag # None
     THEN Some(GetText(d, author_tag[1], <<>>, TRUE))
     ELSE None

\* Author  (lines 95-101)
HeaderAuthor(d, h3) ==
  LET author_tag ==
        Find(d, h3, {m \in DOMAIN d : LET nd == d[m] IN
                                        /\ IsTag(nd, "span")
                                        /\ \E t \in ClassTokens(nd) :
                                              Contains(t, <<"trac", "-", "author">>)})
  IN IF author_tag # None THEN Some(GetText(d, author_tag[1], <<>>, TRUE))
     ELSE SearchAuthor(GetText(d, h3, <<" ">>, TRUE))

ParseChangeHeader(d, h3) ==
  [comment_num |-> HeaderCommentNum(d, h3),
   timestamp |-> HeaderTimestamp(d, h3),
   author |-> HeaderAuthor(d, h3),
   raw |-> GetText(d, h3, <<" ">>, TRUE)]

\* ------------------------------------------- _parse_field_changes (105-146)

\* Python truthiness of an optional str: neither None nor ""
Truthy(opt) == opt # None /\ opt[1] # <<>>

ChangedFrom == <<"change", "d", " ", "from">>
SetTo == <<"set", " ", "to">>
Deleted == <<"deleted">>

\* the action strings "changed", "set", "deleted", "modified"
ActChanged == Some(<<"change", "d">>)
ActSet == Some(<<"set">>)
ActDeleted == Some(<<"deleted">>)
ActModified == Some(<<"modified">>)

\* ClassifyEntry with the "set to" test of line 129 left out
ClassifySetWithoutPhrase(field, li_text, ems) ==
  IF Contains(li_text, ChangedFrom) /\ Len(ems) >= 2
  THEN [field |-> field, action |-> ActChanged,
        old_value |-> Some(ems[1]), new_value |-> Some(ems[2])]
  ELSE IF Len(ems) # 0
  THEN [field |-> field, action |-> ActSet,
        old_value |-> None, new_value |-> Some(ems[1])]
  ELSE IF Contains(li_text, Deleted)
  THEN [field |-> field, action |-> ActDeleted,
        old_value |-> None, new_value |-> None]
  ELSE [field |-> field, action |-> None,
        old_value |-> None, new_value |-> None]

\* ClassifyEntry with the tests of lines 129 and 132 in the other order
ClassifyDeletedFirst(field, li_text, ems) ==
  IF Contains(li_text, ChangedFrom) /\ Len(ems) >= 2
  THEN [field |-> field, action |-> ActChanged,
        old_value |-> Some(ems[1]), new_value |-> Some(ems[2])]
  ELSE IF Contains(li_text, Deleted)
  THEN [field |-> field, action |-> ActDeleted,
        old_value |-> IF Len(ems) # 0 THEN Some(ems[1]) ELSE None,
        new_value |-> None]
  ELSE IF Contains(li_text, SetTo) /\ Len(ems) # 0
  THEN [field |-> field, action |-> ActSet,
        old_value |-> None, new_value |-> Some(ems[1])]
  ELSE IF Len(ems) # 0
  THEN [field |-> field, action |-> ActModified,
        old_value |-> IF Len(ems) > 1 THEN Some(ems[1]) ELSE None,
        new_value |-> Some(ems[Len(ems)])]
  ELSE [field |-> field, action |-> None,
        old_value |-> None, new_value |-> None]

\* The if/elif chain of lines 125-141 on the item's field, rendered text
\* and the texts of its em elements
ClassifyEntry(field, li_text, ems) ==
  IF Contains(li_text, ChangedFrom) /\ Len(ems) >= 2
  THEN [field |-> field, action |-> ActChanged,
        old_value |-> Some(ems[1]), new_value |-> Some(ems[2])]
  ELSE IF Contains(li_text, SetTo) /\ Len(ems) # 0
  THEN [field |-> field, action |-> ActSet,
        old_value |-> None, new_value |-> Some(ems[1])]
  ELSE IF Contains(li_text, Deleted)
  THEN [field |-> field, action |-> ActDeleted,
        old_value |-> IF Len(ems) # 0 THEN Some(ems[1]) ELSE None,
        new_value |-> None]
  ELSE IF Len(ems) # 0
  THEN [field |-> field, action |-> ActModified,
        old_value |-> IF Len(ems) > 1 THEN Some(ems[1]) ELSE None,
        new_value |-> Some(ems[Len(ems)])]
  ELSE [field |-> field, action |-> None,
        old_value |-> None, new_value |-> None]

\* One iteration of the loop over the list items: the entry built for li
\* (lines 116-141)
ParseEntry(d, li) ==
  LET strong == Find(d, li, {m \in DOMAIN d : LET nd == d[m] IN IsTag(nd, "strong")})
      field == IF strong # None
               THEN Some(GetText(d, strong[1], <<>>, TRUE))
               ELSE None
      ems == FindAll(d, li, {m \in DOMAIN d : LET nd == d[m] IN IsTag(nd, "em")})
      li_text == GetText(d, li, <<" ">>, TRUE)
  IN ClassifyEntry(field, li_text,
                   [k \in 1..Len(ems) |-> GetText(d, ems[k], <<>>, TRUE)])

\* KeepEntry dropping the entries without an action as well
KeepEntryWithAction(entry) == Truthy(entry.field) /\ entry.action # None

\* if entry["field"]: changes.append(entry)   (lines 143-144)
KeepEntry(entry) == Truthy(entry.field)

\* ListItems without recursive=False
ListItemsRecursive(d, ul) == FindAll(d, ul, {m \in DOMAIN d : LET nd == d[m] IN IsTag(nd, "li")})

\* for li in ul.find_all("li", recursive=False)   (line 115)
ListItems(d, ul) == FindAllChildren(d, ul, {m \in DOMAIN d : LET nd == d[m] IN IsTag(nd, "li")})

ParseFieldChanges(d, ul) ==
  LET lis == ListItems(d, ul)
      entries == [k \in 1..Len(lis) |-> ParseEntry(d, lis[k])]
  IN SelectSeq(entries, KeepEntry)

\* ------------------------------------------------ inputs: a changes list
\* A list item as Trac renders it:
\*   <li>[<strong>NAME</strong>] VERB (<em>v_k</em> [to])* [SUBLIST]</li>
\* strong: "none" (no element), "empty" (<strong></strong>) or "name";
\* verb: the wording after the name; n: the number of em elements;
\* nested: the item holds a sub-list <ul><li><strong>Sub</strong> set to
\* <em>w</em></li></ul>.
ValNames == <<"libavcodec", "libavformat", "v3", "v4", "v5", "v6">>

FieldName == <<"Component">>
SubName == <<"Sub">>
SubValue == <<"w">>

VerbText(verb) ==
  CASE verb = "none" -> <<" ", "updated", " ">>
    [] verb = "changed" -> <<" ", "change", "d", " ", "from", " ">>
    [] verb = "set" -> <<" ", "set", " ", "to", " ">>
    [] verb = "deleted" -> <<" ", "deleted", " ">>
    [] verb = "all" -> <<" ", "change", "d", " ", "from", " ", "or", " ", "set",
                         " ", "to", " ", "or", " ", "deleted", " ">>

Verbs == {"none", "changed", "set", "deleted", "all"}

Items ==
  [strong : {"none", "empty", "name"}, verb : Verbs, n : 0..MaxEms,
   nested : BOOLEAN]

RECURSIVE EmNodes(_, _, _, _)
EmNodes(base, par, k, n) ==
  IF k > n THEN <<>>
  ELSE LET me == <<Elem("em", <<>>, None, par),
                   TextNode(<<ValNames[k]>>, base + 1)>>
                 \o (IF k < n THEN <<TextNode(<<" ", "to", " ">>, par)>>
                     ELSE <<>>)
       IN me \o EmNodes(base + Len(me), par, k + 1, n)

SubListNodes(base, par) ==
  <<Elem("ul", <<>>, None, par),
    Elem("li", <<>>, None, base + 1),
    Elem("strong", <<>>, None, base + 2),
    TextNode(SubName, base + 3),
    TextNode(<<" ", "set", " ", "to", " ">>, base + 2),
    Elem("em", <<>>, None, base + 2),
    TextNode(SubValue, base + 6)>>

\* the nodes of one item; the li element gets index base + 1
ItemNodes(base, par, it) ==
  LET li == base + 1
      s == IF it.strong = "none" THEN <<>>
           ELSE IF it.strong = "empty"
           THEN <<Elem("strong", <<>>, None, li)>>
           ELSE <<Elem("strong", <<>>, None, li), TextNode(FieldName, li + 1)>>
      v == <<TextNode(VerbText(it.verb), li)>>
      e == EmNodes(li + Len(s) + 1, li, 1, it.n)
      sub == IF it.nested
             THEN SubListNodes(li + Len(s) + 1 + Len(e), li)
             ELSE <<>>
  IN <<Elem("li", <<>>, None, par)>> \o s \o v \o e \o sub

RECURSIVE ItemsNodes(_, _, _)
ItemsNodes(base, par, items) ==
  IF items = <<>> THEN <<>>
  ELSE LET first == ItemNodes(base, par, Head(items))
       IN first \o ItemsNodes(base + Len(first), par, Tail(items))

\* <ul class="changes"> with the given items; the ul gets index base + 1
UlNodes(base, par, items) ==
  <<Elem("ul", << <<"change", "s">> >>, None, par)>>
  \o ItemsNodes(base + 1, base + 1, items)


\* ------------------------------------------------ _parse_comment_text (148-152)
ParseCommentText(d, comment_div) ==
  IF comment_div = None THEN <<>>
  ELSE GetText(d, comment_div[1], <<"\n">>, TRUE)

\* ------------------------------------------------ _parse_changelog (154-217)
\* changelog = soup.find(id="changelog") or soup   (line 174)
ChangelogRoot(d) ==
  LET changelog == Find(d, 0, {m \in DOMAIN d : LET nd == d[m] IN nd.id = Some(<<"changelog">>)})
  IN IF changelog # None THEN changelog[1] ELSE 0

\* IsChangeBlock without the id test of line 182
IsChangeBlockAnyId(nd) ==
  /\ nd.tag \in {"div", "li"}
  /\ HasClassToken(nd, <<"change">>)

\* the lambda of lines 179-183
IsChangeBlock(nd) ==
  /\ nd.tag \in {"div", "li"}
  /\ HasClassToken(nd, <<"change">>)
  /\ StartsWith(GetId(nd), <<"trac", "-", "change">>)

\* ChangeBlocks without the "or soup" of line 174
ChangeBlocksInChangelogOnly(d) ==
  LET changelog == Find(d, 0, {m \in DOMAIN d : LET nd == d[m] IN nd.id = Some(<<"changelog">>)})
  IN IF changelog = None THEN <<>>
     ELSE FindAll(d, changelog[1], {m \in DOMAIN d : IsChangeBlock(d[m])})

\* ChangeBlocks falling back to the legacy pattern when it finds nothing
ChangeBlocksWithFallback(d) ==
  LET found == FindAll(d, ChangelogRoot(d), {m \in DOMAIN d : IsChangeBlock(d[m])})
  IN IF found # <<>> THEN found
     ELSE FindAll(d, ChangelogRoot(d), {m \in DOMAIN d : IsChangeBlockAnyId(d[m])})

\* change_blocks  (lines 178-184)
ChangeBlocks(d) == FindAll(d, ChangelogRoot(d), {m \in DOMAIN d : IsChangeBlock(d[m])})

\* The event a block yields  (lines 187-211)
BlockEvent(d, block) ==
  LET h3 == Find(d, block, {m \in DOMAIN d : LET nd == d[m] IN /\ IsTag(nd, "h3")
                                                               /\ HasClassToken(nd, <<"change">>)})
      ul == Find(d, block, {m \in DOMAIN d : LET nd == d[m] IN /\ IsTag(nd, "ul")
                                                               /\ HasClassToken(nd, <<"change", "s">>)})
      comment_div ==
        Find(d, block, {m \in DOMAIN d : LET nd == d[m] IN /\ IsTag(nd, "div")
                                                           /\ \E t \in ClassTokens(nd) : MatchesCommentWord(t)})
      header == IF h3 # None THEN ParseChangeHeader(d, h3[1])
                ELSE [comment_num |-> None, timestamp |-> None,
                      author |-> None, raw |-> <<>>]
  IN [comment_num |-> header.comment_num,
      timestamp |-> header.timestamp,
      author |-> header.author,
      field_changes |-> IF ul # None THEN ParseFieldChanges(d, ul[1])
                        ELSE <<>>,
      comment |-> IF comment_div # None THEN ParseCommentText(d, comment_div)
                  ELSE <<>>]

\* Retained with the heading taken into account
RetainedWithHeader(event) ==
  \/ event.field_changes # <<>>
  \/ event.comment # <<>>
  \/ event.comment_num # None

\* if event["field_changes"] or event["comment"]   (line 214)
Retained(event) == event.field_changes # <<>> \/ event.comment # <<>>

\* AppendEvent inserting at the front
PrependEvent(evs, event) == <<event>> \o evs

\* events.append(event)   (line 215)
AppendEvent(evs, event) == Append(evs, event)

\* ------------------------- debug_trac_html: the search for change blocks
\* Tag.string: the single string of a tag whose only child is a string, or
\* whose only child is a tag with such a string
Children(d, n) == SelectSeq(Indices(d), LAMBDA c : d[c].parent = n)

RECURSIVE TagString(_, _)
TagString(d, n) ==
  LET cs == Children(d, n) IN
  IF Len(cs) # 1 THEN None
  ELSE IF d[cs[1]].tag = "#text" THEN Some(d[cs[1]].text)
  ELSE TagString(d, cs[1])

\* the first n elements of a list (sq[:n])
Take(sq, n) == SubSeq(sq, 1, IF Len(sq) < n THEN Len(sq) ELSE n)

HeadingSlice == 3

\* lines 72 and 75
DebugChangeDivs(d) ==
  FindAll(d, 0, {m \in DOMAIN d : LET nd == d[m] IN IsTag(nd, "div") /\ HasClassToken(nd, <<"change">>)})

DebugChangeLis(d) ==
  FindAll(d, 0, {m \in DOMAIN d : LET nd == d[m] IN IsTag(nd, "li") /\ HasClassToken(nd, <<"change">>)})

\* line 84: the h3 elements whose string contains "Changed" or "comment"
DebugHeadings(d) ==
  SelectSeq(FindAll(d, 0, {m \in DOMAIN d : LET nd == d[m] IN IsTag(nd, "h3")}),
            LAMBDA n : LET str == TagString(d, n) IN
                       /\ Truthy(str)
                       /\ \/ Contains(str[1], <<"Changed">>)
                          \/ Contains(str[1], <<"comment">>))

\* all_changes after lines 88-97
DebugAfterHeadings(d) ==
  LET all == DebugChangeDivs(d) \o DebugChangeLis(d)
      h3s == Take(DebugHeadings(d), HeadingSlice)
  IN IF all = <<>> /\ DebugHeadings(d) # <<>>
     THEN [k \in 1..Len(h3s) |-> d[h3s[k]].parent]
     ELSE all

\* all_changes after lines 99-114
DebugAllChanges(d) ==
  LET all == DebugAfterHeadings(d)
      ul_changes ==
        FindAll(d, 0, {m \in DOMAIN d : LET nd == d[m] IN /\ IsTag(nd, "ul")
                                                          /\ HasClassToken(nd, <<"change", "s">>)})
  IN IF all = <<>> /\ ul_changes # <<>>
     THEN <<d[ul_changes[1]].parent>>
     ELSE all

\* ------------------------------------------------ inputs: a ticket page
\* A candidate block <TAG class=... id=...> [heading] [changes list]
\* [comment region] </TAG>, placed in <div id="changelog"> ("in") or after it
\* at the top level of the page ("out").
DigitSyms == <<"1", "2", "3", "4", "5", "6", "7", "8", "9">>

Timestamp ==
  <<"2", "0", "2", "4", "-", "0", "1", "-", "1", "5", "T",
    "1", "0", ":", "0", "0", ":", "0", "0", "Z">>

AuthorName == <<"alice">>
CommentBody == <<"Looks", " ", "good", " ", "to", " ", "me", ".">>

\* loc: the element that may or may not be a change block
\*   "div"   <div class="change" id="trac-change-K">
\*   "li"    <li class="change user-comment" id="trac-change-K">
\*   "noid"  <div class="change">                      (decorative)
\*   "nocls" <div id="trac-change-K">
\*   "span"  <span class="change" id="trac-change-K">
\*   "stem"  <div class="changes" id="trac-change-K">
\*   "badid" <div class="change" id="x-trac-change-K">
LocTag(loc) ==
  CASE loc = "li" -> "li" [] loc = "span" -> "span" [] OTHER -> "div"

LocClass(loc) ==
  CASE loc = "li" -> << <<"change">>, <<"user", "-", "comment">> >>
    [] loc = "nocls" -> <<>>
    [] loc = "stem" -> << <<"change", "s">> >>
    [] OTHER -> << <<"change">> >>

LocId(loc, k) ==
  CASE loc = "noid" -> None
    [] loc = "badid" ->
         Some(<<"x", "-", "trac", "-", "change", "-", DigitSyms[k]>>)
    [] OTHER -> Some(<<"trac", "-", "change", "-", DigitSyms[k]>>)

\* head: "none", "A" (layout A of the docstring, lines 66-68) or "B" (plain
\* text); K is the comment number
HeadNodes(base, par, head, k) ==
  LET h3 == base + 1 IN
  CASE head = "none" -> <<>>
    [] head = "A" ->
         <<Elem("h3", << <<"change">> >>, None, par),
           Elem("span", << <<"cnum">> >>, None, h3),
           Anchor(Some(<<"#", "comment", ":", DigitSyms[k]>>), None, h3 + 1),
           TextNode(<<"comment", ":", DigitSyms[k]>>, h3 + 2),
           TextNode(<<" ", "Changed", " ">>, h3),
           Anchor(None, Some(Timestamp), h3),
           TextNode(<<"2", " ", "years", " ", "ago">>, h3 + 5),
           TextNode(<<" ", "by", " ">>, h3),
           Elem("span", << <<"trac", "-", "author">> >>, None, h3),
           TextNode(AuthorName, h3 + 8)>>
    [] head = "B" ->
         <<Elem("h3", << <<"change">> >>, None, par),
           TextNode(<<"comment", ":", DigitSyms[k], " ", "Changed", " ">>
                    \o Timestamp \o <<" ", "by", " ">> \o AuthorName, h3)>>

\* ul: "none" or a changes list
UlItems(ul) ==
  CASE ul = "bad" ->
         <<[strong |-> "none", verb |-> "set", n |-> 1, nested |-> FALSE]>>
    [] ul = "bare" ->
         <<[strong |-> "name", verb |-> "none", n |-> 0, nested |-> FALSE]>>
    [] ul = "mixed" ->
         <<[strong |-> "none", verb |-> "deleted", n |-> 0, nested |-> FALSE],
           [strong |-> "name", verb |-> "changed", n |-> 2, nested |-> FALSE]>>

\* comment: "none", "empty" (<div class="comment"> </div>) or "text"
\* (<div class="comment searchable"><p>Looks good to me.</p></div>)
CommentNodes(base, par, comment) ==
  CASE comment = "none" -> <<>>
    [] comment = "empty" ->
         <<Elem("div", << <<"comment">> >>, None, par),
           TextNode(<<"\n", " ">>, base + 1)>>
    [] comment = "text" ->
         <<Elem("div", << <<"comment">>, <<"searchable">> >>, None, par),
           TextNode(<<"\n">>, base + 1),
           Elem("p", <<>>, None, base + 1),
           TextNode(CommentBody, base + 3),
           TextNode(<<"\n">>, base + 1)>>

\* the nodes of the K-th candidate block; its element gets index base + 1
BlockNodes(base, par, b, k) ==
  LET el == base + 1
      h == HeadNodes(el, el, b.head, k)
      u == IF b.ul = "none" THEN <<>>
           ELSE UlNodes(el + Len(h), el, UlItems(b.ul))
      c == CommentNodes(el + Len(h) + Len(u), el, b.comment)
  IN <<Elem(LocTag(b.loc), LocClass(b.loc), LocId(b.loc, k), par)>>
     \o h \o u \o c

RECURSIVE BlocksNodes(_, _, _, _)
BlocksNodes(base, bs, k, split) ==
  IF k > Len(bs) THEN <<>>
  ELSE LET first == BlockNodes(base, IF k <= split THEN 1 ELSE 0, bs[k], k)
       IN first \o BlocksNodes(base + Len(first), bs, k + 1, split)

\* the page: [<div id="changelog"> the first split blocks </div>] the others
MkDoc(hasCl, split, bs) ==
  IF hasCl
  THEN <<Elem("div", <<>>, Some(<<"changelog">>), 0)>>
       \o BlocksNodes(1, bs, 1, split)
  ELSE BlocksNodes(0, bs, 1, 0)

Heads == {"none", "A", "B"}
Uls == {"none", "bad", "bare", "mixed"}
Comments == {"none", "empty", "text"}
Locs == {"div", "li", "noid", "nocls", "span", "stem", "badid"}

BlockDescs ==
  [loc : {"div"}, head : Heads, ul : Uls, comment : Comments]
  \cup [loc : Locs, head : {"B"}, ul : {"mixed"}, comment : {"text"}]
  \cup [loc : {"nocls"}, head : {"B"}, ul : {"none"}, comment : {"none"}]

\* the blocks every page may repeat: a change with fields and a comment, an
\* empty change, and a decorative block
CommonBlocks ==
  {[loc |-> "div", head |-> "A", ul |-> "mixed", comment |-> "text"],
   [loc |-> "div", head |-> "A", ul |-> "none", comment |-> "none"],
   [loc |-> "noid", head |-> "B", ul |-> "mixed", comment |-> "text"]}

SeqsUpTo(S, n) == UNION {[1..k -> S] : k \in 0..n}

\* the sequences of up to n elements of Common, one of which may be replaced
\* by any element of Free
OneFree(Common, Free, n) ==
  {IF i <= Len(sq) THEN [sq EXCEPT ![i] = f] ELSE sq :
     sq \in SeqsUpTo(Common, n), i \in 1..(n + 1), f \in Free}

\* a page without a changelog has every block at the top level
Pages ==
  {pg \in [hasCl : BOOLEAN, split : 0..MaxBlocks,
           bs : OneFree(CommonBlocks, BlockDescs, MaxBlocks)] :
     /\ pg.split <= Len(pg.bs)
     /\ ~pg.hasCl => pg.split = 0}

\* ---------------------------------------------------------------- state
VARIABLES
  page,           \* the description of the input the document was built from
  doc,            \* soup (or the ul handed to _parse_field_changes)
  pc,             \* the position in the code
  change_blocks,  \* _parse_changelog: the located blocks (node indices)
  idx,            \* _parse_changelog: the number of blocks processed
  events,         \* _parse_changelog: the list being built
  origin,         \* for every event (record) of the list being built, the
                  \* block (list item) it was built from
  changes,        \* _parse_field_changes: the returned list
  all_changes,    \* debug_trac_html: the blocks it found
  dpc,            \* debug_trac_html: the position in the code
  result,         \* _parse_change_header: the dict being filled
  json_text,      \* _save: the text written to the .json file
  loaded,         \* the value json.loads gives for json_text
  calls,          \* the frames of concurrent _parse_changelog invocations
  lines,          \* _to_markdown: the list of output lines being built
  tickets,        \* fetch_tickets: the list of ticket dicts
  files,          \* the files written to disk: a function from path to content
  trace,          \* the operations performed so far, in order
  ticket_data,    \* scrape_trac_ticket: the dict being filled
  scan_i,         \* extract_fields_from_row: the index i of the scan loop
  browser,        \* scrape: "none", "open" or "closed"
  returned,       \* the value returned (None until the return)
  csv_text,       \* fetch_tickets: the text of the CSV export
  comments_found, \* scrape_trac_ticket: a pattern has matched elements
  download_url,   \* scrape_trac_ticket: the local of that name (Unbound
                  \* before its first assignment)
  fields          \* extract_fields_from_row: the dict being filled

vars == <<page, doc, pc, change_blocks, idx, events, origin, changes,
          all_changes, dpc, result, json_text, loaded, calls,
          lines, tickets, files, trace, ticket_data, scan_i, browser,
          returned, csv_text, comments_found,
          download_url, fields>>

\* the variables of the ticket-list, Markdown, page-fetch and single-ticket
\* operations
\* a local that has not been assigned yet
Unbound == <<"unbound">>

ext == <<lines, tickets, files, trace, ticket_data, scan_i, browser, returned,
         csv_text, comments_found, download_url, fields>>

ExtInit ==
  /\ lines = <<>>
  /\ tickets = <<>>
  /\ files = <<>>
  /\ trace = <<>>
  /\ ticket_data = <<>>
  /\ scan_i = 0
  /\ browser = "none"
  /\ returned = <<>>
  /\ csv_text = <<>>
  /\ comments_found = FALSE
  /\ download_url = Unbound
  /\ fields = <<>>

\* the variables of the other operations, which _parse_changelog,
\* _parse_field_changes and debug_trac_html leave alone
aux == <<result, json_text, loaded, calls, ext>>

AuxInit ==
  /\ result = <<>>
  /\ json_text = <<>>
  /\ loaded = <<>>
  /\ calls = <<>>
  /\ ExtInit

\* ------------------------------------------ _parse_changelog, step by step
Init ==
  /\ page \in Pages
  /\ doc = MkDoc(page.hasCl, page.split, page.bs)
  /\ pc = "start"
  /\ change_blocks = <<>>
  /\ idx = 0
  /\ events = <<>>
  /\ origin = <<>>
  /\ changes = <<>>
  /\ all_changes = <<>>
  /\ dpc = "start"
  /\ AuxInit

\* lines 170-184
LocateBlocks ==
  /\ pc = "start"
  /\ pc' = "loop"
  /\ change_blocks' = ChangeBlocks(doc)
  /\ events' = <<>>
  /\ UNCHANGED <<page, doc, idx, origin, changes, all_changes, dpc>>
  /\ UNCHANGED aux

\* one iteration of the loop of lines 186-215
ProcessBlock ==
  /\ pc = "loop"
  /\ idx < Len(change_blocks)
  /\ LET block == change_blocks[idx + 1]
         event == BlockEvent(doc, block)
     IN IF Retained(event)
        THEN /\ events' = AppendEvent(events, event)
             /\ origin' = Append(origin, block)
        ELSE UNCHANGED <<events, origin>>
  /\ idx' = idx + 1
  /\ UNCHANGED <<page, doc, pc, change_blocks, changes, all_changes, dpc>>
  /\ UNCHANGED aux

\* line 217
ReturnEvents ==
  /\ pc = "loop"
  /\ idx = Len(change_blocks)
  /\ pc' = "done"
  /\ UNCHANGED <<page, doc, change_blocks, idx, events, origin, changes,
                 all_changes, dpc>>
  /\ UNCHANGED aux

Next == LocateBlocks \/ ProcessBlock \/ ReturnEvents

Spec == Init /\ [][Next]_vars

\* -------------------------------------- _parse_field_changes on its own
\* the items every list may repeat
CommonItems ==
  {[strong |-> "name", verb |-> "changed", n |-> 2, nested |-> FALSE],
   [strong |-> "none", verb |-> "set", n |-> 1, nested |-> FALSE],
   [strong |-> "name", verb |-> "none", n |-> 0, nested |-> FALSE]}

Lists == OneFree(CommonItems, Items, MaxItems)

InitFC ==
  /\ page \in [items : Lists]
  /\ doc = UlNodes(0, 0, page.items)
  /\ pc = "fc_start"
  /\ change_blocks = <<>>
  /\ idx = 0
  /\ events = <<>>
  /\ origin = <<>>
  /\ changes = <<>>
  /\ all_changes = <<>>
  /\ dpc = "start"
  /\ AuxInit

\* lines 114-146, called with the ul element (node 1)
CallParseFieldChanges ==
  /\ pc = "fc_start"
  /\ pc' = "fc_done"
  /\ changes' = ParseFieldChanges(doc, 1)
  /\ origin' = SelectSeq(ListItems(doc, 1),
                         LAMBDA li : KeepEntry(ParseEntry(doc, li)))
  /\ UNCHANGED <<page, doc, change_blocks, idx, events, all_changes, dpc>>
  /\ UNCHANGED aux

NextFC == CallParseFieldChanges

SpecFC == InitFC /\ [][NextFC]_vars

\* ------------------------------------------- what the input descriptions say
\* The facts of a list item, read off its description (not off the tree):
\* its value tokens in document order, the phrases of its text, its
\* field-name marker.
ItemTokens(it) ==
  [k \in 1..it.n |-> <<ValNames[k]>>]
  \o (IF it.nested THEN <<SubValue>> ELSE <<>>)

ItemSaysChangedFrom(it) == it.verb \in {"changed", "all"}
ItemSaysSetTo(it) == it.verb \in {"set", "all"} \/ it.nested
ItemSaysDeleted(it) == it.verb \in {"deleted", "all"}

ItemHasMarker(it) == it.strong # "none" \/ it.nested

\* the text of the first strong element of the item
ItemMarkerText(it) ==
  CASE it.strong = "name" -> FieldName
    [] it.strong = "empty" -> <<>>
    [] OTHER -> SubName

ItemHasName(it) == ItemHasMarker(it) /\ ItemMarkerText(it) # <<>>

\* The first-match rule table of section 4.3 of the specification
RuleTable(it) ==
  LET t == ItemTokens(it)
      r1 == ItemSaysChangedFrom(it) /\ Len(t) >= 2
      r2 == ~r1 /\ ItemSaysSetTo(it) /\ Len(t) >= 1
      r3 == ~r1 /\ ~r2 /\ ItemSaysDeleted(it)
      r4 == ~r1 /\ ~r2 /\ ~r3 /\ Len(t) >= 1
  IN CASE r1 -> [action |-> ActChanged, old_value |-> Some(t[1]),
                 new_value |-> Some(t[2])]
       [] r2 -> [action |-> ActSet, old_value |-> None,
                 new_value |-> Some(t[1])]
       [] r3 -> [action |-> ActDeleted,
                 old_value |-> IF Len(t) >= 1 THEN Some(t[1]) ELSE None,
                 new_value |-> None]
       [] r4 -> [action |-> ActModified,
                 old_value |-> IF Len(t) >= 2 THEN Some(t[1]) ELSE None,
                 new_value |-> Some(t[Len(t)])]
       [] OTHER -> [action |-> None, old_value |-> None, new_value |-> None]

ExpRecord(it) ==
  [field |-> Some(ItemMarkerText(it)),
   action |-> RuleTable(it).action,
   old_value |-> RuleTable(it).old_value,
   new_value |-> RuleTable(it).new_value]

ExpRecords(items) ==
  LET named == SelectSeq(items, ItemHasName)
  IN [j \in 1..Len(named) |-> ExpRecord(named[j])]

\* The facts of the K-th candidate block of the page
InRoot(k) == ~page.hasCl \/ k <= page.split

IsTrueChange(b) == b.loc \in {"div", "li"}

DescFieldChanges(b) ==
  IF b.ul = "none" THEN <<>> ELSE ExpRecords(UlItems(b.ul))

DescComment(b) == IF b.comment = "text" THEN CommentBody ELSE <<>>

DescYields(b) == DescFieldChanges(b) # <<>> \/ DescComment(b) # <<>>

ExpEvent(b, k) ==
  [comment_num |-> IF b.head = "A" THEN Some(k) ELSE None,
   timestamp |-> IF b.head = "none" THEN None ELSE Some(Timestamp),
   author |-> IF b.head = "none" THEN None ELSE Some(AuthorName),
   field_changes |-> DescFieldChanges(b),
   comment |-> DescComment(b)]

\* the elements of the candidate blocks, in document order
TopNodes ==
  SelectSeq(Indices(doc),
            LAMBDA n : /\ doc[n].tag # "#text"
                       /\ doc[n].id # Some(<<"changelog">>)
                       /\ doc[n].parent \in (IF page.hasCl THEN {0, 1} ELSE {0}))

BlockOfNode(n) == CHOOSE k \in 1..Len(page.bs) : TopNodes[k] = n
IsTopNode(n) == \E k \in 1..Len(page.bs) : TopNodes[k] = n
DescOfNode(n) == page.bs[BlockOfNode(n)]

Range(sq) == {sq[j] : j \in 1..Len(sq)}

\* ------------------------------------------------------------------ claims

\* C1: for every located change block, an event for it is in the returned
\* list iff the block yields at least one field change or a non-empty
\* comment; the heading plays no part, and a kept block without a heading
\* has its three header fields absent.
C1_Retention ==
  pc = "done" =>
    \A i \in 1..Len(change_blocks) :
      LET b == DescOfNode(change_blocks[i]) IN
      /\ change_blocks[i] \in Range(origin) <=> DescYields(b)
      /\ \A j \in 1..Len(events) :
           origin[j] = change_blocks[i] /\ b.head = "none" =>
             /\ events[j].comment_num = None
             /\ events[j].timestamp = None
             /\ events[j].author = None

\* a heading-only block was dropped and a comment-only block without a
\* heading was kept
C1_Witness ==
  /\ pc = "done"
  /\ \E i \in 1..Len(change_blocks) :
       LET b == DescOfNode(change_blocks[i]) IN
       /\ b.head = "A" /\ b.ul = "none" /\ b.comment = "none"
       /\ change_blocks[i] \notin Range(origin)
  /\ \E j \in 1..Len(events) :
       LET b == DescOfNode(origin[j]) IN
       /\ b.head = "none" /\ b.ul = "none" /\ b.comment = "text"
       /\ events[j].author = None

\* C2: the returned list has one event per located block that satisfies the
\* retention rule, in the order of the blocks, each built from its own block.
C2_CountAndOrder ==
  pc = "done" =>
    /\ origin = SelectSeq(change_blocks, LAMBDA n : DescYields(DescOfNode(n)))
    /\ Len(events) = Len(origin)
    /\ \A j \in 1..Len(events) :
         events[j] = ExpEvent(DescOfNode(origin[j]), BlockOfNode(origin[j]))

\* two blocks with different contents were kept
C2_Witness ==
  /\ pc = "done"
  /\ Len(events) = 2
  /\ events[1].comment_num = Some(1)
  /\ events[2].comment_num = Some(2)
  /\ events[1].field_changes # events[2].field_changes

\* the located change blocks the page description names: the true change
\* blocks below the root (the changelog, or the page when it has none)
DescLocated ==
  SelectSeq(TopNodes,
            LAMBDA n : IsTrueChange(DescOfNode(n)) /\ InRoot(BlockOfNode(n)))

C5_OnlyTrueChanges ==
  pc # "start" /\ DescLocated # <<>> =>
    /\ change_blocks = DescLocated
    /\ \A j \in 1..Len(origin) :
         IsTopNode(origin[j]) /\ IsTrueChange(DescOfNode(origin[j]))

\* a true change block gave an event next to a decorative div.change and
\* its own h3.change heading
C5_Witness ==
  /\ pc = "done"
  /\ events # <<>>
  /\ \E k \in 1..Len(page.bs) : page.bs[k].loc = "noid" /\ InRoot(k)
  /\ \E j \in 1..Len(origin) : DescOfNode(origin[j]).head = "A"

\* C9 as claimed: the action of every field change of every event is one of
\* changed, set, deleted, modified.
C9_Claimed ==
  \A j \in 1..Len(events) :
    \A f \in 1..Len(events[j].field_changes) :
      events[j].field_changes[f].action
        \in {ActChanged, ActSet, ActDeleted, ActModified}

\* C10: an item with a field name, no value token and no recognized verb
\* phrase gives a field change with action and both values absent, and a
\* block with nothing but that item is kept.
BareRecord ==
  [field |-> Some(FieldName), action |-> None, old_value |-> None,
   new_value |-> None]

ItemNodesOfList ==
  SelectSeq(Indices(doc),
            LAMBDA n : doc[n].tag # "#text" /\ doc[n].parent = 1)

IsItemNode(n) == \E k \in 1..Len(page.items) : ItemNodesOfList[k] = n
ItemOfNode(n) ==
  page.items[CHOOSE k \in 1..Len(page.items) : ItemNodesOfList[k] = n]

\* C6: "changed" only with at least two value tokens; "set" only with
\* "set to" in the text and at least one token; "modified" never when
\* "changed from" with two tokens, "set to" with one token, or "deleted" is
\* there.
C6_ActionsNeedTokens ==
  pc = "fc_done" =>
    /\ Len(origin) = Len(changes)
    /\ \A j \in 1..Len(changes) :
         /\ IsItemNode(origin[j])
         /\ LET it == ItemOfNode(origin[j])
                nTok == Len(ItemTokens(it))
                a == changes[j].action
            IN /\ a = ActChanged => nTok >= 2
               /\ a = ActSet => ItemSaysSetTo(it) /\ nTok >= 1
               /\ a = ActModified =>
                    /\ ~(ItemSaysChangedFrom(it) /\ nTok >= 2)
                    /\ ~(ItemSaysSetTo(it) /\ nTok >= 1)
                    /\ ~ItemSaysDeleted(it)

\* "changed from" with a single token was classified modified, next to a
\* changed and a set record
C6_Witness ==
  /\ pc = "fc_done"
  /\ \E j \in 1..Len(changes) :
       /\ changes[j].action = ActModified
       /\ ItemSaysChangedFrom(ItemOfNode(origin[j]))
  /\ \E j \in 1..Len(changes) : changes[j].action = ActChanged

\* C7: for every item with a field name, action, old value and new value
\* are those of the first-match rule table applied to the item's text and
\* value tokens.
C7_RuleTable ==
  pc = "fc_done" =>
    \A k \in 1..Len(page.items) :
      ItemHasName(page.items[k]) =>
        \E j \in 1..Len(changes) :
          /\ j <= Len(origin)
          /\ origin[j] = ItemNodesOfList[k]
          /\ changes[j].action = RuleTable(page.items[k]).action
          /\ changes[j].old_value = RuleTable(page.items[k]).old_value
          /\ changes[j].new_value = RuleTable(page.items[k]).new_value

\* an item matching all the rules, with three tokens, was classified by the
\* first one
C7_Witness ==
  /\ pc = "fc_done"
  /\ \E j \in 1..Len(changes) :
       LET it == ItemOfNode(origin[j]) IN
       /\ it.verb = "all" /\ it.n = 3 /\ ~it.nested
       /\ changes[j].action = ActChanged
       /\ changes[j].new_value = Some(<<"libavformat">>)

\* C8 as claimed: one record for each direct list item that has a
\* field-name marker.
C8_Claimed ==
  pc = "fc_done" =>
    Len(changes) = Len(SelectSeq(page.items, ItemHasMarker))

\* C8 as amended: one record for each direct list item whose field-name
\* marker has a non-empty text, in the order of the items; the other items
\* give no record and change nothing in the records of the rest.
C8_OneRecordPerNamedItem ==
  pc = "fc_done" =>
    /\ \A j \in 1..Len(origin) : IsItemNode(origin[j])
    /\ origin = SelectSeq(ItemNodesOfList,
                          LAMBDA n : ItemHasName(ItemOfNode(n)))
    /\ changes = ExpRecords(page.items)

\* an item without a marker was skipped and the item after it recorded
C8_Witness ==
  /\ pc = "fc_done"
  /\ Len(page.items) = 2
  /\ ~ItemHasMarker(page.items[1])
  /\ Len(changes) = 1
  /\ changes[1].field = Some(FieldName)
  /\ origin = <<ItemNodesOfList[2]>>

\* ----------------------------- the two searches for change blocks, side by
\* side on pages with up to MaxHeadings blocks, all of them in the changelog
\* when there is one
LocateBlocksDescs ==
  {[loc |-> "nocls", head |-> "B", ul |-> "none", comment |-> "none"],
   [loc |-> "nocls", head |-> "A", ul |-> "mixed", comment |-> "none"],
   [loc |-> "noid", head |-> "B", ul |-> "none", comment |-> "none"],
   [loc |-> "li", head |-> "none", ul |-> "mixed", comment |-> "text"],
   [loc |-> "div", head |-> "A", ul |-> "bare", comment |-> "none"]}

InitLocate ==
  /\ page \in {pg \in [hasCl : BOOLEAN, split : 0..MaxHeadings,
                       bs : SeqsUpTo(LocateBlocksDescs, MaxHeadings)] :
                 pg.split = IF pg.hasCl THEN Len(pg.bs) ELSE 0}
  /\ doc = MkDoc(page.hasCl, page.split, page.bs)
  /\ pc = "start"
  /\ change_blocks = <<>>
  /\ idx = 0
  /\ events = <<>>
  /\ origin = <<>>
  /\ changes = <<>>
  /\ all_changes = <<>>
  /\ dpc = "start"
  /\ AuxInit

\* debug_trac_html, lines 72-114
DebugFindBlocks ==
  /\ dpc = "start"
  /\ dpc' = "done"
  /\ all_changes' = DebugAllChanges(doc)
  /\ UNCHANGED <<page, doc, pc, change_blocks, idx, events, origin, changes>>
  /\ UNCHANGED aux

NextLocate == LocateBlocks \/ DebugFindBlocks

SpecLocate == InitLocate /\ [][NextLocate]_vars

\* the candidate blocks of a kind, as the page description names them
DescNodes(kind) == SelectSeq(TopNodes, LAMBDA n : DescOfNode(n) \in kind)

DescIsDivChange == {b \in BlockDescs \cup LocateBlocksDescs : b.loc \in {"div", "noid", "badid"}}
DescIsLiChange == {b \in BlockDescs \cup LocateBlocksDescs : b.loc = "li"}
DescIsClassChange == DescIsDivChange \cup DescIsLiChange
DescHasPlainHeading == {b \in BlockDescs \cup LocateBlocksDescs : b.head = "B"}
DescHasList == {b \in BlockDescs \cup LocateBlocksDescs : b.ul # "none"}

\* C4 as claimed: when nothing matches the first pattern, the blocks are
\* those of the legacy pattern, else the parents of the headings that
\* contain "Changed" or "comment".
C4_Claimed ==
  pc = "loop" /\ DescLocated = <<>> =>
    change_blocks =
      IF DescNodes(DescIsClassChange) # <<>> THEN DescNodes(DescIsClassChange)
      ELSE DescNodes(DescHasPlainHeading)

\* C4 as amended: _parse_changelog uses the first pattern alone, and finds
\* nothing when no element matches it; only debug_trac_html falls back: it
\* takes the div.change elements, then the li.change elements, whatever their
\* ids, else the parents of the first three h3 elements whose single
\* string contains "Changed" or "comment", else the parent of the first
\* ul.changes.
C4_SinglePattern ==
  /\ pc = "loop" => change_blocks = DescLocated
  /\ dpc = "done" =>
       all_changes =
         IF DescNodes(DescIsClassChange) # <<>>
         THEN DescNodes(DescIsDivChange) \o DescNodes(DescIsLiChange)
         ELSE IF DescNodes(DescHasPlainHeading) # <<>>
         THEN Take(DescNodes(DescHasPlainHeading), 3)
         ELSE IF DescNodes(DescHasList) # <<>>
         THEN <<DescNodes(DescHasList)[1]>>
         ELSE <<>>

\* on a page with four headings and no element of the first pattern,
\* _parse_changelog found nothing and debug_trac_html three heading parents
C4_Witness ==
  /\ pc = "loop"
  /\ dpc = "done"
  /\ change_blocks = <<>>
  /\ Len(DescNodes(DescHasPlainHeading)) = 4
  /\ Len(all_changes) = 3

\* ====================================================== heading inputs
\* str(n) of a non-negative int, one symbol per digit
DigitOf == <<"0", "1", "2", "3", "4", "5", "6", "7", "8", "9">>

RECURSIVE IntStr(_)
IntStr(n) ==
  IF n < 10 THEN <<DigitOf[n + 1]>>
  ELSE IntStr(n \div 10) \o <<DigitOf[(n % 10) + 1]>>

\* A heading is written as a sequence of pieces below the h3: a run of text,
\* or an element (a chain of nested elements) around one string.  Adjacent
\* runs of text are one string of the tree, as the parser builds it.
TextPiece(s) == [k |-> "text", chain |-> <<>>, s |-> s]
ElemPiece(chain, s) == [k |-> "elem", chain |-> chain, s |-> s]

RECURSIVE MergeText(_)
MergeText(ps) ==
  IF Len(ps) < 2 THEN ps
  ELSE IF ps[1].k = "text" /\ ps[2].k = "text"
  THEN MergeText(<<TextPiece(ps[1].s \o ps[2].s)>> \o SubSeq(ps, 3, Len(ps)))
  ELSE <<ps[1]>> \o MergeText(Tail(ps))

\* the nodes of one piece; its first node gets index base + 1
PieceNodes(base, par, p) ==
  IF p.k = "text" THEN <<TextNode(p.s, par)>>
  ELSE [j \in 1..Len(p.chain) |->
          [p.chain[j] EXCEPT !.parent = IF j = 1 THEN par ELSE base + j - 1]]
       \o (IF p.s = <<>> THEN <<>>
           ELSE <<TextNode(p.s, base + Len(p.chain))>>)

RECURSIVE PiecesNodes(_, _, _)
PiecesNodes(base, par, ps) ==
  IF ps = <<>> THEN <<>>
  ELSE LET first == PieceNodes(base, par, Head(ps))
       IN first \o PiecesNodes(base + Len(first), par, Tail(ps))

ShortStamp ==
  <<"2", "0", "2", "3", "-", "1", "2", "-", "3", "1", " ",
    "0", "9", ":", "3", "0">>

ZoneStamp ==
  <<"2", "0", "2", "4", "-", "0", "1", "-", "1", "5", "T",
    "1", "0", ":", "0", "0", "+", "0", "1", ":", "0", "0">>

DateOnly == <<"2", "0", "2", "4", "-", "0", "1", "-", "1", "5">>

Ago == <<"2", " ", "years", " ", "ago">>
OtherName == <<"bob">>

CommentToken(num) == <<"comment", ":">> \o IntStr(num)

\* cnum: how the heading writes the comment number NUM
\*   "none"    not at all
\*   "span"    <span class="cnum"><a href="#comment:N">comment:N</a></span>
\*   "anchor"  <a href="#comment:N">comment:N</a>
\*   "text"    comment:N                                   (plain text)
\*   "marker"  <span class="cnum">#N</span> comment:N
CnumPieces(kind, num) ==
  LET cnum == Elem("span", << <<"cnum">> >>, None, 0)
      link == Anchor(Some(<<"#">> \o CommentToken(num)), None, 0)
  IN CASE kind = "none" -> <<>>
       [] kind = "span" ->
            <<ElemPiece(<<cnum, link>>, CommentToken(num)), TextPiece(<<" ">>)>>
       [] kind = "anchor" ->
            <<ElemPiece(<<link>>, CommentToken(num)), TextPiece(<<" ">>)>>
       [] kind = "text" -> <<TextPiece(CommentToken(num) \o <<" ">>)>>
       [] kind = "marker" ->
            <<ElemPiece(<<cnum>>, <<"#">> \o IntStr(num)),
              TextPiece(<<" ">> \o CommentToken(num) \o <<" ">>)>>

\* time: how the heading writes the time of the change
\*   "none"       not at all
\*   "title"      <a title=" 2024-01-15T10:00:00Z\n">2 years ago</a>
\*   "titletext"  <a title="2024-01-15T10:00:00Z">2023-12-31 09:30</a>
\*   "plaintitle" <a title="See timeline">2024-01-15T10:00:00Z</a>
\*   "text"       2024-01-15T10:00:00Z
\*   "short"      2023-12-31 09:30
\*   "zone"       2024-01-15T10:00+01:00
\*   "dateonly"   2024-01-15
\*   "two"        2023-12-31 09:30 2024-01-15T10:00:00Z
TimePieces(kind) ==
  CASE kind = "none" -> <<>>
    [] kind = "title" ->
         <<ElemPiece(<<Anchor(None, Some(<<" ">> \o Timestamp \o <<"\n">>), 0)>>,
                     Ago),
           TextPiece(<<" ">>)>>
    [] kind = "titletext" ->
         <<ElemPiece(<<Anchor(None, Some(Timestamp), 0)>>, ShortStamp),
           TextPiece(<<" ">>)>>
    [] kind = "plaintitle" ->
         <<ElemPiece(<<Anchor(None, Some(<<"See", " ", "timeline">>), 0)>>,
                     Timestamp),
           TextPiece(<<" ">>)>>
    [] kind = "text" -> <<TextPiece(Timestamp \o <<" ">>)>>
    [] kind = "short" -> <<TextPiece(ShortStamp \o <<" ">>)>>
    [] kind = "zone" -> <<TextPiece(ZoneStamp \o <<" ">>)>>
    [] kind = "dateonly" -> <<TextPiece(DateOnly \o <<" ">>)>>
    [] kind = "two" ->
         <<TextPiece(ShortStamp \o <<" ">> \o Timestamp \o <<" ">>)>>

\* author: how the heading writes the author
\*   "none"     not at all
\*   "span"     by <span class="trac-author"> alice </span>
\*   "spanuser" by <span class="trac-author-user">alice</span>
\*   "spantext" by bob <span class="trac-author">alice</span>
\*   "text"     by alice
\*   "byline"   by \n alice
\*   "byend"    by
\*   "standby"  standby alice
\*   "twoby"    by alice by bob
AuthorPieces(kind) ==
  LET mark == Elem("span", << <<"trac", "-", "author">> >>, None, 0)
      user == Elem("span", << <<"trac", "-", "author", "-", "user">> >>,
                   None, 0)
  IN CASE kind = "none" -> <<>>
       [] kind = "span" ->
            <<TextPiece(<<"by", " ">>),
              ElemPiece(<<mark>>, <<" ">> \o AuthorName \o <<" ">>)>>
       [] kind = "spanuser" ->
            <<TextPiece(<<"by", " ">>), ElemPiece(<<user>>, AuthorName)>>
       [] kind = "spantext" ->
            <<TextPiece(<<"by", " ">> \o OtherName \o <<" ">>),
              ElemPiece(<<mark>>, AuthorName)>>
       [] kind = "text" -> <<TextPiece(<<"by", " ">> \o AuthorName)>>
       [] kind = "byline" ->
            <<TextPiece(<<"by", " ", "\n", " ">> \o AuthorName)>>
       [] kind = "byend" -> <<TextPiece(<<"by">>)>>
       [] kind = "standby" -> <<TextPiece(<<"standby", " ">> \o AuthorName)>>
       [] kind = "twoby" ->
            <<TextPiece(<<"by", " ">> \o AuthorName \o <<" ", "by", " ">>
                        \o OtherName)>>

\* <h3 class="change"> [comment number] Changed [time] [author] </h3>; the
\* h3 gets index base + 1
HeadingNodes(base, par, h) ==
  <<Elem("h3", << <<"change">> >>, None, par)>>
  \o PiecesNodes(base + 1, base + 1,
                 MergeText(CnumPieces(h.cnum, h.num)
                           \o <<TextPiece(<<"Changed", " ">>)>>
                           \o TimePieces(h.time)
                           \o AuthorPieces(h.author)))

CnumKinds == {"none", "span", "anchor", "text", "marker"}
Nums == {0, 3, 12}
TimeKinds == {"none", "title", "titletext", "plaintitle", "text", "short",
              "zone", "dateonly", "two"}
AuthorKinds == {"none", "span", "spanuser", "spantext", "text", "byline",
                "byend", "standby", "twoby"}

Headings == [cnum : CnumKinds, num : Nums, time : TimeKinds,
             author : AuthorKinds]

\* ------------------------------------ _parse_change_header, step by step
\* lines 70-72
NewResult(d, h3) ==
  [comment_num |-> None, timestamp |-> None, author |-> None,
   raw |-> GetText(d, h3, <<" ">>, TRUE)]

\* lines 74-79
WithCommentNum(res, d, h3) ==
  [res EXCEPT !.comment_num = HeaderCommentNum(d, h3)]

\* lines 81-92
WithTimestamp(res, d, h3) ==
  [res EXCEPT !.timestamp = HeaderTimestamp(d, h3)]

\* WithAuthor giving up when no timestamp was found
WithAuthorIfTimestamp(res, d, h3) ==
  IF res.timestamp = None THEN res
  ELSE [res EXCEPT !.author = HeaderAuthor(d, h3)]

\* lines 94-101
WithAuthor(res, d, h3) ==
  [res EXCEPT !.author = HeaderAuthor(d, h3)]

InitHeader ==
  /\ page \in Headings
  /\ doc = HeadingNodes(0, 0, page)
  /\ pc = "h_start"
  /\ change_blocks = <<>>
  /\ idx = 0
  /\ events = <<>>
  /\ origin = <<>>
  /\ changes = <<>>
  /\ all_changes = <<>>
  /\ dpc = "start"
  /\ AuxInit

HeaderStart ==
  /\ pc = "h_start"
  /\ pc' = "h_cnum"
  /\ result' = NewResult(doc, 1)
  /\ UNCHANGED <<page, doc, change_blocks, idx, events, origin, changes,
                 all_changes, dpc, json_text, loaded, calls>>
  /\ UNCHANGED ext

HeaderFindCommentNum ==
  /\ pc = "h_cnum"
  /\ pc' = "h_time"
  /\ result' = WithCommentNum(result, doc, 1)
  /\ UNCHANGED <<page, doc, change_blocks, idx, events, origin, changes,
                 all_changes, dpc, json_text, loaded, calls>>
  /\ UNCHANGED ext

HeaderFindTimestamp ==
  /\ pc = "h_time"
  /\ pc' = "h_author"
  /\ result' = WithTimestamp(result, doc, 1)
  /\ UNCHANGED <<page, doc, change_blocks, idx, events, origin, changes,
                 all_changes, dpc, json_text, loaded, calls>>
  /\ UNCHANGED ext

\* lines 94-103
HeaderFindAuthor ==
  /\ pc = "h_author"
  /\ pc' = "h_done"
  /\ result' = WithAuthor(result, doc, 1)
  /\ UNCHANGED <<page, doc, change_blocks, idx, events, origin, changes,
                 all_changes, dpc, json_text, loaded, calls>>
  /\ UNCHANGED ext

NextHeader ==
  \/ HeaderStart
  \/ HeaderFindCommentNum
  \/ HeaderFindTimestamp
  \/ HeaderFindAuthor

SpecHeader == InitHeader /\ [][NextHeader]_vars

\* ------------------------------------------- what the heading descriptions say
\* the time the heading's markup gives: the title of the anchor whose title
\* holds a date, else the first date and time of the text
ExpTimestamp(kind) ==
  CASE kind \in {"title", "titletext", "plaintitle", "text"} -> Some(Timestamp)
    [] kind \in {"short", "two"} -> Some(ShortStamp)
    [] kind = "zone" -> Some(ZoneStamp)
    [] OTHER -> None

\* the author the heading's markup gives: the text of the author span, else
\* the word after the first standalone "by"
ExpAuthor(kind) ==
  IF kind \in {"none", "byend", "standby"} THEN None ELSE Some(AuthorName)

HasTitleDate(kind) == kind \in {"title", "titletext"}
HasAuthorSpan(kind) == kind \in {"span", "spanuser", "spantext"}

\* the heading with the markup of one field only
OnlyCnum(h) == [h EXCEPT !.time = "none", !.author = "none"]
OnlyTime(h) == [h EXCEPT !.cnum = "none", !.author = "none"]
OnlyAuthor(h) == [h EXCEPT !.cnum = "none", !.time = "none"]

\* ------------------------------------------------- claims on the heading

\* C12 as claimed: whenever the text of the heading holds a token
\* comment:<digits>, the comment number is the value of those digits, in the
\* cnum span or in the rest of the heading.
C12_Claimed ==
  pc = "h_done" /\ page.cnum # "none" =>
    result.comment_num = Some(page.num)

\* C13: the timestamp is the trimmed title of the anchor whose title holds a
\* date, whatever the text says; without such an anchor it is the first
\* date and time (YYYY-MM-DD, T or space, HH:MM, optional :SS, optional
\* zone) of the rendered text, and absent when the text has none.
C13_TitleThenText ==
  pc = "h_done" =>
    /\ result.timestamp = ExpTimestamp(page.time)
    /\ HasTitleDate(page.time) => result.timestamp = Some(Timestamp)
    /\ page.time \in {"none", "dateonly"} => result.timestamp = None

C13_Witness ==
  /\ pc = "h_done"
  /\ page.time = "titletext"
  /\ Contains(result.raw, ShortStamp)
  /\ result.timestamp = Some(Timestamp)

PyNone == [t |-> "none", v |-> <<>>]
PyInt(n) == [t |-> "int", v |-> n]
PyStr(str) == [t |-> "str", v |-> str]
PyList(xs) == [t |-> "list", v |-> xs]
PyDict(items) == [t |-> "dict", v |-> items]

\* json.loads raising JSONDecodeError
PyError == [t |-> "error", v |-> <<>>]

OptInt(o) == IF o = None THEN PyNone ELSE PyInt(o[1])
OptStr(o) == IF o = None THEN PyNone ELSE PyStr(o[1])

\* the entry dict of line 116
EntryPy(entry) ==
  PyDict(<< <<<<"field">>, OptStr(entry.field)>>,
            <<<<"action">>, OptStr(entry.action)>>,
            <<<<"old_value">>, OptStr(entry.old_value)>>,
            <<<<"new_value">>, OptStr(entry.new_value)>> >>)

\* the event dict of lines 187-193
EventPy(event) ==
  PyDict(<< <<<<"comment_num">>, OptInt(event.comment_num)>>,
            <<<<"timestamp">>, OptStr(event.timestamp)>>,
            <<<<"author">>, OptStr(event.author)>>,
            <<<<"field_changes">>,
              PyList([j \in 1..Len(event.field_changes) |->
                        EntryPy(event.field_changes[j])])>>,
            <<<<"comment">>, PyStr(event.comment)>> >>)

EventsPy(evs) == PyList([j \in 1..Len(evs) |-> EventPy(evs[j])])

\* json.dumps(..., indent=2, ...)
JsonIndent == 2

Spaces(n) == [k \in 1..n |-> " "]

\* EscapeSym leaving the backslash as it is
EscapeSymQuoteOnly(c) ==
  CASE c = "\"" -> <<"\\", "\"">>
    [] c = "\n" -> <<"\\", "n">>
    [] OTHER -> <<c>>

\* the escapes of a JSON string with ensure_ascii=False
EscapeSym(c) ==
  CASE c = "\"" -> <<"\\", "\"">>
    [] c = "\\" -> <<"\\", "\\">>
    [] c = "\n" -> <<"\\", "n">>
    [] OTHER -> <<c>>

RECURSIVE Escape(_)
Escape(str) ==
  IF str = <<>> THEN <<>> ELSE EscapeSym(Head(str)) \o Escape(Tail(str))

Quote(str) == <<"\"">> \o Escape(str) \o <<"\"">>

\* json.dumps(v, indent=2, ensure_ascii=False), v at nesting depth level
RECURSIVE Dumps(_, _)
RECURSIVE DumpElements(_, _)
RECURSIVE DumpMembers(_, _)
Dumps(v, level) ==
  CASE v.t = "none" -> <<"null">>
    [] v.t = "int" -> IntStr(v.v)
    [] v.t = "str" -> Quote(v.v)
    [] v.t = "list" ->
         IF v.v = <<>> THEN <<"[", "]">>
         ELSE <<"[", "\n">> \o DumpElements(v.v, level + 1)
              \o <<"\n">> \o Spaces(JsonIndent * level) \o <<"]">>
    [] v.t = "dict" ->
         IF v.v = <<>> THEN <<"{", "}">>
         ELSE <<"{", "\n">> \o DumpMembers(v.v, level + 1)
              \o <<"\n">> \o Spaces(JsonIndent * level) \o <<"}">>

DumpElements(xs, level) ==
  Spaces(JsonIndent * level) \o Dumps(xs[1], level)
  \o (IF Len(xs) = 1 THEN <<>>
      ELSE <<",", "\n">> \o DumpElements(Tail(xs), level))

DumpMembers(kvs, level) ==
  Spaces(JsonIndent * level) \o Quote(kvs[1][1]) \o <<":", " ">>
  \o Dumps(kvs[1][2], level)
  \o (IF Len(kvs) = 1 THEN <<>>
      ELSE <<",", "\n">> \o DumpMembers(Tail(kvs), level))

\* json.loads: a parse gives the value and the position after it, or fails
Parsed(v, i) == [ok |-> TRUE, v |-> v, i |-> i]
ParseFail == [ok |-> FALSE, v |-> PyNone, i |-> 0]

SkipWs(s, i) == RunEnd(s, i, WS) + 1

Unescape(c) == CASE c = "n" -> "\n" [] OTHER -> c

\* the string whose opening quote is before position j
RECURSIVE ParseStringFrom(_, _, _)
ParseStringFrom(s, j, acc) ==
  IF j > Len(s) THEN ParseFail
  ELSE IF s[j] = "\"" THEN Parsed(PyStr(acc), j + 1)
  ELSE IF s[j] = "\\"
  THEN IF At(s, j + 1) \in {"\"", "\\", "n"}
       THEN ParseStringFrom(s, j + 2, Append(acc, Unescape(s[j + 1])))
       ELSE ParseFail
  ELSE IF s[j] = "\n" THEN ParseFail
  ELSE ParseStringFrom(s, j + 1, Append(acc, s[j]))

RECURSIVE ParseValue(_, _)
RECURSIVE ParseElements(_, _, _)
RECURSIVE ParseMembers(_, _, _)
ParseValue(s, from) ==
  LET i == SkipWs(s, from) IN
  CASE At(s, i) = "null" -> Parsed(PyNone, i + 1)
    [] At(s, i) \in Digits ->
         LET e == IF s[i] = "0" THEN i ELSE RunEnd(s, i, Digits)
         IN Parsed(PyInt(ParseInt(SubSeq(s, i, e))), e + 1)
    [] At(s, i) = "\"" -> ParseStringFrom(s, i + 1, <<>>)
    [] At(s, i) = "[" ->
         LET j == SkipWs(s, i + 1)
         IN IF At(s, j) = "]" THEN Parsed(PyList(<<>>), j + 1)
            ELSE ParseElements(s, i + 1, <<>>)
    [] At(s, i) = "{" ->
         LET j == SkipWs(s, i + 1)
         IN IF At(s, j) = "}" THEN Parsed(PyDict(<<>>), j + 1)
            ELSE ParseMembers(s, i + 1, <<>>)
    [] OTHER -> ParseFail

ParseElements(s, from, acc) ==
  LET r == ParseValue(s, from) IN
  IF ~r.ok THEN ParseFail
  ELSE LET j == SkipWs(s, r.i) IN
       IF At(s, j) = "," THEN ParseElements(s, j + 1, Append(acc, r.v))
       ELSE IF At(s, j) = "]" THEN Parsed(PyList(Append(acc, r.v)), j + 1)
       ELSE ParseFail

ParseMembers(s, from, acc) ==
  LET k == SkipWs(s, from) IN
  IF At(s, k) # "\"" THEN ParseFail
  ELSE LET key == ParseStringFrom(s, k + 1, <<>>) IN
       IF ~key.ok THEN ParseFail
       ELSE LET c == SkipWs(s, key.i) IN
            IF At(s, c) # ":" THEN ParseFail
            ELSE LET r == ParseValue(s, c + 1) IN
                 IF ~r.ok THEN ParseFail
                 ELSE LET j == SkipWs(s, r.i)
                          item == <<key.v.v, r.v>>
                      IN IF At(s, j) = ","
                         THEN ParseMembers(s, j + 1, Append(acc, item))
                         ELSE IF At(s, j) = "}"
                         THEN Parsed(PyDict(Append(acc, item)), j + 1)
                         ELSE ParseFail

Loads(s) ==
  LET r == ParseValue(s, 1) IN
  IF r.ok /\ SkipWs(s, r.i) = Len(s) + 1 THEN r.v ELSE PyError

\* ===================================== change blocks with varied markup
\* head: no h3 at all, or a heading of the family above
NoHead ==
  [h3 |-> FALSE, cnum |-> "none", num |-> 0, time |-> "none",
   author |-> "none"]

\* <h3 class="change">comment:3 Changed 2024-01-15T10:00:00Z by alice</h3>
PlainHead ==
  [h3 |-> TRUE, cnum |-> "text", num |-> 3, time |-> "text",
   author |-> "text"]

RichHeads ==
  {NoHead, PlainHead,
   [h3 |-> TRUE, cnum |-> "span", num |-> 12, time |-> "title",
    author |-> "span"],
   [h3 |-> TRUE, cnum |-> "span", num |-> 0, time |-> "title",
    author |-> "span"],
   [h3 |-> TRUE, cnum |-> "anchor", num |-> 3, time |-> "short",
    author |-> "text"]}

\* ul: "none", "one" (Component changed from libavcodec to libavformat) or
\* "bare" (Component updated)
RichUlItems(ul) ==
  CASE ul = "one" ->
         <<[strong |-> "name", verb |-> "changed", n |-> 2, nested |-> FALSE]>>
    [] OTHER -> UlItems(ul)

RichUls == {"none", "one", "bare"}

FirstPara == <<"First", ".">>
SecondPara == <<"Second", ".">>
FormText == <<"Reply">>
QuoteBody == <<"say", " ", "\"", "hi", "\"", " ", "\\", "n">>

\* comment: what follows the changes list in the block
\*   "none"      nothing
\*   "empty"     <div class="comment"> </div>
\*   "text"      <div class="comment searchable"><p>Looks good to me.</p></div>
\*   "two"       <div class="comment searchable"><p>First.</p><p>Second.</p></div>
\*   "inline"    <div class="comment"><p>This is <b>bold</b> text</p></div>
\*   "quote"     <div class="comment"><p>say "hi" \n</p></div>
\*   "form"      <div class="comment-form">Reply</div>
\*   "formfirst" the form followed by the div of "text"
\*   "longer"    <div class="comments"><p>Looks good to me.</p></div>
RichCommentNodes(base, par, comment) ==
  LET region == Elem("div", << <<"comment">>, <<"searchable">> >>, None, par)
      single == Elem("div", << <<"comment">> >>, None, par)
      form == <<Elem("div", << <<"comment", "-", "form">> >>, None, par),
                TextNode(FormText, base + 1)>>
  IN CASE comment = "two" ->
            <<region,
              TextNode(<<"\n">>, base + 1),
              Elem("p", <<>>, None, base + 1),
              TextNode(FirstPara, base + 3),
              TextNode(<<"\n">>, base + 1),
              Elem("p", <<>>, None, base + 1),
              TextNode(SecondPara, base + 6),
              TextNode(<<"\n">>, base + 1)>>
       [] comment = "inline" ->
            <<single,
              Elem("p", <<>>, None, base + 1),
              TextNode(<<"This", " ", "is", " ">>, base + 2),
              Elem("b", <<>>, None, base + 2),
              TextNode(<<"bold">>, base + 4),
              TextNode(<<" ", "text">>, base + 2)>>
       [] comment = "quote" ->
            <<single,
              Elem("p", <<>>, None, base + 1),
              TextNode(QuoteBody, base + 2)>>
       [] comment = "form" -> form
       [] comment = "formfirst" ->
            form \o CommentNodes(base + 2, par, "text")
       [] comment = "longer" ->
            <<Elem("div", << <<"comment", "s">> >>, None, par),
              Elem("p", <<>>, None, base + 1),
              TextNode(CommentBody, base + 2)>>
       [] OTHER -> CommentNodes(base, par, comment)

RichComments == {"none", "empty", "text", "two", "inline", "quote", "form",
                 "formfirst", "longer"}

\* <div class="change" id="trac-change-K"> [h3] [ul] [comment] </div> in the
\* changelog (node 1); the div gets index base + 1
RichBlockNodes(base, b, k) ==
  LET el == base + 1
      h == IF b.head.h3 THEN HeadingNodes(el, el, b.head) ELSE <<>>
      u == IF b.ul = "none" THEN <<>>
           ELSE UlNodes(el + Len(h), el, RichUlItems(b.ul))
      c == RichCommentNodes(el + Len(h) + Len(u), el, b.comment)
  IN <<Elem("div", << <<"change">> >>,
            Some(<<"trac", "-", "change", "-", DigitSyms[k]>>), 1)>>
     \o h \o u \o c

RECURSIVE RichBlocksNodes(_, _, _)
RichBlocksNodes(base, bs, k) ==
  IF k > Len(bs) THEN <<>>
  ELSE LET first == RichBlockNodes(base, bs[k], k)
       IN first \o RichBlocksNodes(base + Len(first), bs, k + 1)

RichDoc(bs) ==
  <<Elem("div", <<>>, Some(<<"changelog">>), 0)>> \o RichBlocksNodes(1, bs, 1)

RichBlocks == [head : RichHeads, ul : RichUls, comment : RichComments]

\* the blocks every page may repeat: a field change under a plain heading,
\* and a comment on its own
CommonRich ==
  {[head |-> PlainHead, ul |-> "one", comment |-> "none"],
   [head |-> NoHead, ul |-> "none", comment |-> "text"]}

RichPages == [bs : OneFree(CommonRich, RichBlocks, MaxBlocks)]

\* ------------------------------- _parse_changelog followed by _save's JSON
InitSave ==
  /\ page \in RichPages
  /\ doc = RichDoc(page.bs)
  /\ pc = "start"
  /\ change_blocks = <<>>
  /\ idx = 0
  /\ events = <<>>
  /\ origin = <<>>
  /\ changes = <<>>
  /\ all_changes = <<>>
  /\ dpc = "start"
  /\ AuxInit

\* json.dumps(events, indent=2, ensure_ascii=False)   (lines 284-286)
SaveJson ==
  /\ pc = "done"
  /\ pc' = "saved"
  /\ json_text' = Dumps(EventsPy(events), 0)
  /\ UNCHANGED <<page, doc, change_blocks, idx, events, origin, changes,
                 all_changes, dpc, result, loaded, calls>>
  /\ UNCHANGED ext

\* json.loads of the text of the file
LoadJson ==
  /\ pc = "saved"
  /\ pc' = "loaded"
  /\ loaded' = Loads(json_text)
  /\ UNCHANGED <<page, doc, change_blocks, idx, events, origin, changes,
                 all_changes, dpc, result, json_text, calls>>
  /\ UNCHANGED ext

NextSave ==
  \/ LocateBlocks
  \/ ProcessBlock
  \/ ReturnEvents
  \/ SaveJson
  \/ LoadJson

SpecSave == InitSave /\ [][NextSave]_vars

\* ---------------------------------------- what the block descriptions say
\* the description of the block the J-th event was built from
RichDescOf(j) ==
  page.bs[CHOOSE k \in 1..Len(change_blocks) : change_blocks[k] = origin[j]]

\* the comment text the specification gives for a block: the paragraphs of
\* the element with the class token "comment", joined by newlines
ClaimedComment(comment) ==
  CASE comment \in {"text", "formfirst"} -> CommentBody
    [] comment = "two" -> FirstPara \o <<"\n">> \o SecondPara
    [] comment = "inline" -> <<"This", " ", "is", " ", "bold", " ", "text">>
    [] comment = "quote" -> QuoteBody
    [] OTHER -> <<>>

\* ------------------------------------------------ claims on whole events

\* C11 as claimed (Scenario A): the block whose heading reads "comment:3
\* Changed 2024-01-15T10:00:00Z by alice", with the one list item "Component
\* changed from libavcodec to libavformat" and no comment region, yields
\* exactly one event: comment number 3, that timestamp, author alice, the
\* field change (Component, changed, libavcodec, libavformat), comment "".
C11_Claimed ==
  pc = "done"
  /\ page.bs = <<[head |-> PlainHead, ul |-> "one", comment |-> "none"]>> =>
    events = <<[comment_num |-> Some(3),
                timestamp |-> Some(Timestamp),
                author |-> Some(AuthorName),
                field_changes |->
                  <<[field |-> Some(<<"Component">>),
                     action |-> ActChanged,
                     old_value |-> Some(<<"libavcodec">>),
                     new_value |-> Some(<<"libavformat">>)]>>,
                comment |-> <<>>]>>

\* C16 as claimed: the comment number of every returned event is absent or
\* an integer that is at least 1.
C16_Claimed ==
  pc = "done" =>
    \A j \in 1..Len(events) :
      events[j].comment_num = None \/ events[j].comment_num[1] >= 1

\* C17 as claimed: the comment of every event is a string, empty when the
\* block has no comment region, else the trimmed text of the region with
\* newlines exactly between its paragraphs (never inside a paragraph).
C17_Claimed ==
  pc = "done" =>
    \A j \in 1..Len(events) :
      RichDescOf(j).comment \notin {"form", "formfirst"} =>
        events[j].comment = ClaimedComment(RichDescOf(j).comment)

\* C18 as claimed: the comment region is the element with the class token
\* "comment", alone or among others; an element whose tokens only contain
\* the word (comment-form, comments) is never taken for it.
C18_Claimed ==
  pc = "done" =>
    \A j \in 1..Len(events) :
      RichDescOf(j).comment \in {"text", "form", "formfirst", "longer"} =>
        events[j].comment = ClaimedComment(RichDescOf(j).comment)

MaxCalls == 2

Calls == 1..MaxCalls

\* the blocks of the documents the invocations are given
FieldBlock == [head |-> PlainHead, ul |-> "one", comment |-> "none"]
CommentBlock == [head |-> NoHead, ul |-> "none", comment |-> "text"]
HeadingBlock == [head |-> PlainHead, ul |-> "none", comment |-> "none"]

ConcPages ==
  {<<FieldBlock>>, <<FieldBlock, CommentBlock>>, <<CommentBlock, FieldBlock>>,
   <<HeadingBlock, CommentBlock>>}

\* the locals of one invocation: soup, the position in the code,
\* change_blocks, the number of blocks processed, events
NewFrame(d) ==
  [doc |-> d, pc |-> "start", change_blocks |-> <<>>, idx |-> 0,
   events |-> <<>>]

\* StoreEvents on a list that all the invocations share
StoreEventsShared(cs, t, evs) ==
  [u \in DOMAIN cs |-> [cs[u] EXCEPT !.events = evs]]

\* events = [] (line 170) and events.append (line 215) act on the list of
\* the invocation itself
StoreEvents(cs, t, evs) == [cs EXCEPT ![t].events = evs]

\* the list a single invocation returns for the document: the events of the
\* retained blocks among the first n located blocks
RECURSIVE EventsOfBlocks(_, _, _)
EventsOfBlocks(d, blocks, n) ==
  IF n = 0 THEN <<>>
  ELSE LET before == EventsOfBlocks(d, blocks, n - 1)
           event == BlockEvent(d, blocks[n])
       IN IF Retained(event) THEN AppendEvent(before, event) ELSE before

ParseChangelog(d) == EventsOfBlocks(d, ChangeBlocks(d), Len(ChangeBlocks(d)))

InitConc ==
  /\ page \in [Calls -> ConcPages]
  /\ calls = [t \in Calls |-> NewFrame(RichDoc(page[t]))]
  /\ doc = <<>>
  /\ pc = "calls"
  /\ change_blocks = <<>>
  /\ idx = 0
  /\ events = <<>>
  /\ origin = <<>>
  /\ changes = <<>>
  /\ all_changes = <<>>
  /\ dpc = "start"
  /\ result = <<>>
  /\ json_text = <<>>
  /\ loaded = <<>>
  /\ ExtInit

\* lines 170-184 in invocation t
CallLocate(t) ==
  /\ calls[t].pc = "start"
  /\ calls' = StoreEvents([calls EXCEPT
                             ![t].pc = "loop",
                             ![t].change_blocks = ChangeBlocks(calls[t].doc)],
                          t, <<>>)
  /\ UNCHANGED <<page, doc, pc, change_blocks, idx, events, origin, changes,
                 all_changes, dpc, result, json_text, loaded>>
  /\ UNCHANGED ext

\* one iteration of the loop of lines 186-215 in invocation t
CallProcess(t) ==
  /\ calls[t].pc = "loop"
  /\ calls[t].idx < Len(calls[t].change_blocks)
  /\ LET block == calls[t].change_blocks[calls[t].idx + 1]
         event == BlockEvent(calls[t].doc, block)
         stepped == [calls EXCEPT ![t].idx = @ + 1]
     IN calls' = IF Retained(event)
                 THEN StoreEvents(stepped, t,
                                  AppendEvent(calls[t].events, event))
                 ELSE stepped
  /\ UNCHANGED <<page, doc, pc, change_blocks, idx, events, origin, changes,
                 all_changes, dpc, result, json_text, loaded>>
  /\ UNCHANGED ext

\* line 217 in invocation t
CallReturn(t) ==
  /\ calls[t].pc = "loop"
  /\ calls[t].idx = Len(calls[t].change_blocks)
  /\ calls' = [calls EXCEPT ![t].pc = "done"]
  /\ UNCHANGED <<page, doc, pc, change_blocks, idx, events, origin, changes,
                 all_changes, dpc, result, json_text, loaded>>
  /\ UNCHANGED ext

NextConc == \E t \in Calls : CallLocate(t) \/ CallProcess(t) \/ CallReturn(t)

SpecConc == InitConc /\ [][NextConc]_vars

\* C20: under every interleaving, each invocation holds, and returns, the
\* list it would build when run alone on its document, whatever the other
\* invocations do; two invocations on the same document return equal lists.
C20_Isolated ==
  /\ \A t \in Calls :
       /\ calls[t].pc = "loop" =>
            calls[t].events =
              EventsOfBlocks(calls[t].doc, ChangeBlocks(calls[t].doc),
                             calls[t].idx)
       /\ calls[t].pc = "done" =>
            calls[t].events = ParseChangelog(calls[t].doc)
  /\ \A t, u \in Calls :
       /\ calls[t].pc = "done" /\ calls[u].pc = "done"
       /\ calls[t].doc = calls[u].doc
       => calls[t].events = calls[u].events

\* two invocations on distinct documents are both in the middle of their
\* loops, each with an event of its own in its list
C20_Witness ==
  /\ calls[1].doc # calls[2].doc
  /\ calls[1].pc = "loop" /\ calls[1].idx = 1 /\ Len(calls[1].change_blocks) = 2
  /\ calls[2].pc = "loop" /\ calls[2].idx = 1 /\ Len(calls[2].change_blocks) = 2
  /\ Len(calls[1].events) = 1
  /\ Len(calls[2].events) = 1
  /\ calls[1].events # calls[2].events

\* ===================================================== _to_markdown
\* the text f"{x}" gives for an optional string: "None" for None
FmtOpt(opt) == IF opt = None THEN <<"None">> ELSE opt[1]

\* s.split(sep) for a one-symbol separator
RECURSIVE SplitOn(_, _)
SplitOn(s, sep) ==
  IF \A k \in DOMAIN s : s[k] # sep THEN <<s>>
  ELSE LET k == Least({j \in DOMAIN s : s[j] = sep})
       IN <<SubSeq(s, 1, k - 1)>> \o SplitOn(SubSeq(s, k + 1, Len(s)), sep)

TicketId == <<"1", "2", "3", "4">>
BaseUrl == <<"https", ":", "/", "/", "trac", ".", "ffmpeg", ".", "org">>

\* lines 224-233 (the export time is one symbol)
MdHeader(ticket_id, n) ==
  <<(<<"#", " ", "Change", " ", "History", " ", "emdash", " ", "Ticket", " ", "#">>
       \o ticket_id),
    <<>>,
    (<<"**", "Source", ":", "**", " ">> \o BaseUrl \o <<"/", "ticket", "/">>
       \o ticket_id \o <<" ", " ">>),
    <<"**", "Exported", ":", "**", " ", "now", " ", " ">>,
    (<<"**", "Total", " ", "change", " ", "events", ":", "**", " ">>
       \o IntStr(n)),
    <<>>,
    <<"---">>,
    <<>> >>

\* line 236: a comment number of 0 is falsy
MdCnum(ev) ==
  IF ev.comment_num # None /\ ev.comment_num[1] # 0
  THEN <<"comment", ":">> \o IntStr(ev.comment_num[1])
  ELSE <<"change">>

\* lines 237-240
MdHeading(ev) ==
  LET ts == IF Truthy(ev.timestamp) THEN ev.timestamp[1]
            ELSE <<"unknown", " ", "time">>
      author == IF Truthy(ev.author) THEN ev.author[1] ELSE <<"unknown">>
  IN <<"##", " ", "[">> \o MdCnum(ev) \o <<"]", " ", "emdash", " ">> \o ts
       \o <<" ", "by", " ", "**">> \o author \o <<"**">>

\* lines 247-264
MdFieldLine(fc) ==
  LET field == FmtOpt(fc.field)
      old == FmtOpt(fc.old_value)
      new == FmtOpt(fc.new_value)
      start == <<"-", " ", "**">> \o field \o <<"**", ":", " ">>
      parts == (IF Truthy(fc.old_value)
                THEN <<(<<"was", " ", "backtick">> \o old \o <<"backtick">>)>> ELSE <<>>)
               \o (IF Truthy(fc.new_value)
                   THEN <<(<<"now", " ", "backtick">> \o new \o <<"backtick">>)>> ELSE <<>>)
  IN IF fc.action = ActChanged
     THEN start \o <<"backtick">> \o old \o <<"backtick", " ", "arrow", " ", "backtick">> \o new
            \o <<"backtick">>
     ELSE IF fc.action = ActSet
     THEN start \o <<"set", " ", "to", " ", "backtick">> \o new \o <<"backtick">>
     ELSE IF fc.action = ActDeleted
     THEN start \o <<"deleted", " ", "(", "was", " ", "backtick">> \o old
            \o <<"backtick", ")">>
     ELSE start \o (IF parts # <<>> THEN Join(<<",", " ">>, parts)
                    ELSE FmtOpt(fc.action))

\* lines 243-265
MdFieldChanges(ev) ==
  IF ev.field_changes = <<>> THEN <<>>
  ELSE <<(<<"**", "Field", " ", "changes", ":", "**">>), <<>> >>
         \o [k \in DOMAIN ev.field_changes |-> MdFieldLine(ev.field_changes[k])]
         \o << <<>> >>

\* lines 267-272
MdComment(ev) ==
  IF ev.comment = <<>> THEN <<>>
  ELSE LET paras == SplitOn(ev.comment, "\n")
       IN <<(<<"**", "Comment", ":", "**">>), <<>> >>
            \o [k \in DOMAIN paras |->
                  IF paras[k] # <<>> THEN <<">", " ">> \o paras[k]
                  ELSE <<">">>]
            \o << <<>> >>

\* one iteration of the loop of lines 235-275
MdSection(ev) ==
  <<MdHeading(ev), <<>> >> \o MdFieldChanges(ev) \o MdComment(ev)
    \o << <<"---">>, <<>> >>

MdFrame == <<page, doc, change_blocks, origin, changes, all_changes, dpc,
             result, json_text, loaded, calls, tickets, files, trace,
             ticket_data, scan_i, browser, csv_text, comments_found,
             download_url, fields>>

\* _save hands _to_markdown the list _parse_changelog returned
InitMarkdown ==
  /\ page \in RichPages
  /\ doc = RichDoc(page.bs)
  /\ pc = "md_start"
  /\ events = ParseChangelog(doc)
  /\ change_blocks = <<>>
  /\ idx = 0
  /\ origin = <<>>
  /\ changes = <<>>
  /\ all_changes = <<>>
  /\ dpc = "start"
  /\ AuxInit

\* lines 223-233
MdStart ==
  /\ pc = "md_start"
  /\ pc' = "md_loop"
  /\ lines' = MdHeader(TicketId, Len(events))
  /\ UNCHANGED <<events, idx, returned>>
  /\ UNCHANGED MdFrame

\* lines 235-275, one event
MdEvent ==
  /\ pc = "md_loop"
  /\ idx < Len(events)
  /\ lines' = lines \o MdSection(events[idx + 1])
  /\ idx' = idx + 1
  /\ UNCHANGED <<pc, events, returned>>
  /\ UNCHANGED MdFrame

\* line 277
MdReturn ==
  /\ pc = "md_loop"
  /\ idx = Len(events)
  /\ pc' = "md_done"
  /\ returned' = Some(Join(<<"\n">>, lines))
  /\ UNCHANGED <<events, idx, lines>>
  /\ UNCHANGED MdFrame

NextMarkdown == MdStart \/ MdEvent \/ MdReturn

SpecMarkdown == InitMarkdown /\ [][NextMarkdown]_vars

\* the places of the section headings among the lines of the text
MdHeadingAt(out) ==
  {k \in DOMAIN out : StartsWith(out[k], <<"##", " ", "[">>)}

\* the place of the j-th heading, and the lines of the j-th section
MdPlace(heads, j) ==
  CHOOSE k \in heads : Cardinality({m \in heads : m <= k}) = j

MdSectionLines(out, heads, j) ==
  LET at == MdPlace(heads, j)
  IN {k \in DOMAIN out : k > at /\ \A m \in heads : m > at => k < m}

MdLabel(ev) ==
  IF ev.comment_num # None
  THEN <<"comment", ":">> \o IntStr(ev.comment_num[1])
  ELSE <<"change">>

\* C21 as claimed: the text has one section per event, in list order; the
\* heading of a section reads comment:<n> whenever its event has a comment
\* number and change only when it has none; a blockquote is in exactly the
\* sections of the events whose comment is not empty.
C21_Claimed ==
  pc = "md_done" =>
    LET out == SplitOn(returned[1], "\n")
        heads == MdHeadingAt(out)
    IN /\ Cardinality(heads) = Len(events)
       /\ \A j \in 1..Len(events) :
            j <= Cardinality(heads) =>
              /\ StartsWith(out[MdPlace(heads, j)],
                            <<"##", " ", "[">> \o MdLabel(events[j])
                              \o <<"]">>)
              /\ (events[j].comment # <<>>)
                   <=> (\E k \in MdSectionLines(out, heads, j) :
                          StartsWith(out[k], <<">">>))

\* ===================================================== fetch_tickets
\* a Python dict of strings: the list of its <<key, value>> pairs in
\* insertion order
DictHas(d, k) == \E j \in DOMAIN d : d[j][1] = k

\* d.get(k, default)
DictGet(d, k, default) ==
  IF DictHas(d, k) THEN d[CHOOSE j \in DOMAIN d : d[j][1] = k][2]
  ELSE default

\* d[k] = v
DictSet(d, k, v) ==
  IF DictHas(d, k)
  THEN [j \in DOMAIN d |-> IF d[j][1] = k THEN <<k, v>> ELSE d[j]]
  ELSE Append(d, <<k, v>>)

\* str.lower(), symbol by symbol
LowerSym(c) ==
  CASE c \in {"Rejected", "REJECTED"} -> "rejected"
    [] c \in {"WontFix", "WONTFIX"} -> "wontfix"
    [] c = "Resolution" -> "resolution"
    [] c = "Status" -> "status"
    [] OTHER -> c

Lower(s) == [k \in DOMAIN s |-> LowerSym(s[k])]

\* csv.reader on the text: the list of rows, a row being the list of its
\* cells; a quoted cell may hold commas and doubled quotes; an empty line
\* gives the empty row
RECURSIVE CsvScan(_, _, _, _, _, _)
CsvScan(s, k, inq, cell, row, started) ==
  IF k > Len(s)
  THEN IF started THEN <<Append(row, cell)>> ELSE <<>>
  ELSE LET c == s[k] IN
    IF inq
    THEN IF c = "\""
         THEN IF k < Len(s) /\ s[k + 1] = "\""
              THEN CsvScan(s, k + 2, TRUE, Append(cell, "\""), row, TRUE)
              ELSE CsvScan(s, k + 1, FALSE, cell, row, TRUE)
         ELSE CsvScan(s, k + 1, TRUE, Append(cell, c), row, TRUE)
    ELSE IF c = "\"" /\ cell = <<>>
    THEN CsvScan(s, k + 1, TRUE, cell, row, TRUE)
    ELSE IF c = ","
    THEN CsvScan(s, k + 1, FALSE, <<>>, Append(row, cell), TRUE)
    ELSE IF c = "\n"
    THEN <<(IF started THEN Append(row, cell) ELSE <<>>)>>
           \o CsvScan(s, k + 1, FALSE, <<>>, <<>>, FALSE)
    ELSE CsvScan(s, k + 1, FALSE, Append(cell, c), row, TRUE)

CsvReader(s) == CsvScan(s, 1, FALSE, <<>>, <<>>, FALSE)

\* line 89 on one row of the DictReader: keys and values stripped, a later
\* pair replacing an earlier one with the same stripped key
RECURSIVE StripRow(_, _, _)
StripRow(fieldnames, row, n) ==
  IF n = 0 THEN <<>>
  ELSE DictSet(StripRow(fieldnames, row, n - 1),
               Strip(fieldnames[n]), Strip(row[n]))

\* lines 83-90: csv.DictReader takes the first non-empty row as the field
\* names and skips empty rows; a row shorter than the field names gets None
\* values and a longer one a None key, and line 89 then raises
\* AttributeError (ok = FALSE)
ParseCsv(s) ==
  LET rows == SelectSeq(CsvReader(s), LAMBDA r : r # <<>>)
  IN IF rows = <<>> THEN [ok |-> TRUE, tickets |-> <<>>]
     ELSE LET fieldnames == rows[1]
              data == Tail(rows)
          IN IF \E j \in DOMAIN data : Len(data[j]) # Len(fieldnames)
             THEN [ok |-> FALSE, tickets |-> <<>>]
             ELSE [ok |-> TRUE,
                   tickets |-> [j \in DOMAIN data |->
                                  StripRow(fieldnames, data[j],
                                           Len(fieldnames))]]

\* the test of line 250 without lower()
NotRejectedExact(t) ==
  DictGet(t, <<"resolution">>, <<>>) \notin {<<"rejected">>, <<"wontfix">>}

\* line 250
NotRejected(t) ==
  Lower(DictGet(t, <<"resolution">>, <<>>))
    \notin {<<"rejected">>, <<"wontfix">>}

\* lines 248-251
FilterTickets(ts) == SelectSeq(ts, LAMBDA t : NotRejected(t))

\* the list handed to json.dumps at line 103
TicketPy(t) == PyDict([j \in DOMAIN t |-> <<t[j][1], PyStr(t[j][2])>>])

TicketsPy(ts) == PyList([j \in DOMAIN ts |-> TicketPy(ts[j])])

\* s.strip("#")
RECURSIVE StripHash(_)
StripHash(s) ==
  IF s # <<>> /\ Head(s) = "#" THEN StripHash(Tail(s))
  ELSE IF s # <<>> /\ s[Len(s)] = "#" THEN StripHash(SubSeq(s, 1, Len(s) - 1))
  ELSE s

\* s.replace("|", "\\|")
RECURSIVE EscapePipes(_)
EscapePipes(s) ==
  IF s = <<>> THEN <<>>
  ELSE (IF Head(s) = "|" THEN <<"\\", "|">> ELSE <<Head(s)>>)
         \o EscapePipes(Tail(s))

\* lines 129-134
MdPreferred ==
  << <<"id">>, <<"summary">>, <<"status">>, <<"type">>, <<"priority">>,
     <<"component">>, <<"owner">>, <<"reporter">> >>

MdCols(t) ==
  LET all_keys == [j \in DOMAIN t |-> t[j][1]]
      first == SelectSeq(MdPreferred, LAMBDA k : DictHas(t, k))
      rest == SelectSeq(all_keys,
                LAMBDA k : /\ \A j \in DOMAIN first : first[j] # k
                           /\ k \notin {<<"description">>, <<"keywords">>})
  IN first \o rest

\* lines 137-138 and 150
MdTableLine(cells) == <<"|", " ">> \o Join(<<" ", "|", " ">>, cells) \o <<" ", "|">>

\* lines 141-150
MdTicketRow(t, cols) ==
  LET ticket_id == StripHash(DictGet(t, <<"id">>, <<>>))
  IN MdTableLine([j \in DOMAIN cols |->
       IF cols[j] = <<"id">>
       THEN <<"[", "#">> \o ticket_id \o <<"]", "(">> \o BaseUrl
              \o <<"/", "ticket", "/">> \o ticket_id \o <<")">>
       ELSE EscapePipes(DictGet(t, cols[j], <<>>))])

\* lines 112-152: the text written to tickets.md
TicketsMarkdown(ts) ==
  LET head == <<(<<"#", " ", "Active", " ", "Tickets", " ", "(", "excluding",
                   " ", "Rejected", ")">>),
                <<>>,
                (<<"**", "Source", ":", "**", " ">> \o BaseUrl \o <<" ", " ">>),
                <<"**", "Generated", ":", "**", " ", "now", " ", " ">>,
                (<<"**", "Total", " ", "tickets", ":", "**", " ">>
                   \o IntStr(Len(ts))),
                <<>> >>
  IN Join(<<"\n">>,
       IF ts = <<>>
       THEN Append(head, <<"_", "No", " ", "tickets", " ", "found", ".", "_">>)
       ELSE LET cols == MdCols(ts[1])
            IN head
                 \o <<MdTableLine(cols),
                      MdTableLine([j \in DOMAIN cols |-> <<"---">>])>>
                 \o [j \in DOMAIN ts |-> MdTicketRow(ts[j], cols)])

\* ------------------------------------------------ the CSV exports
MaxRows == 2

\* the raw text of the resolution cell of a row
ResRejected ==
  {<<"rejected">>, <<"Rejected">>, <<"REJECTED">>, <<" ", "rejected", " ">>,
   <<"wontfix">>, <<"WontFix">>, <<"wontfix", " ">>}

ResKept == {<<>>, <<"fixed">>, <<"rejected", "-", "upstream">>}

\* a row: its resolution cell, its summary (plain, or quoted with a comma)
\* and its shape (ok, a cell short, a cell long, or an empty line)
CsvRowDesc(res, summary, shape) ==
  [res |-> res, summary |-> summary, shape |-> shape]

CommonRows ==
  {CsvRowDesc(<<"fixed">>, "plain", "ok"),
   CsvRowDesc(<<"rejected">>, "plain", "ok")}

FreeRows ==
  {CsvRowDesc(r, "plain", "ok") : r \in ResRejected \cup ResKept}
    \cup {CsvRowDesc(<<"WontFix">>, "quoted", "ok"),
          CsvRowDesc(<<"fixed">>, "quoted", "ok"),
          CsvRowDesc(<<"fixed">>, "plain", "short"),
          CsvRowDesc(<<"rejected">>, "plain", "long"),
          CsvRowDesc(<<"fixed">>, "plain", "blank")}

\* the id cell of the row at position p
RowId(p) == IntStr(p + 6)

CsvHeaderText(hdr) ==
  CASE hdr = "plain" -> <<"id", ",", "summary", ",", "resolution">>
    [] hdr = "padded" -> <<"id", ",", " ", "summary", ",", " ", "resolution", " ">>
    [] hdr = "nores" -> <<"id", ",", "summary">>

CsvRowText(p, row, hdr) ==
  LET summary == IF row.summary = "plain" THEN <<"crash">>
                 ELSE <<"\"", "crash", ",", " ", "again", "\"">>
      res == IF hdr = "nores" THEN <<>> ELSE <<",">> \o row.res
  IN CASE row.shape = "ok" -> RowId(p) \o <<",">> \o summary \o res
       [] row.shape = "short" -> RowId(p)
       [] row.shape = "long" ->
            RowId(p) \o <<",">> \o summary \o res \o <<",", "extra">>
       [] row.shape = "blank" -> <<>>

CsvText(pg) ==
  CsvHeaderText(pg.hdr) \o <<"\n">>
    \o Join(<<>>, [p \in DOMAIN pg.rows |->
                     CsvRowText(p, pg.rows[p], pg.hdr) \o <<"\n">>])

CsvPages ==
  [hdr : {"plain", "padded", "nores"},
   status : {200, 403, 500},
   rows : OneFree(CommonRows, FreeRows, MaxRows)]

FetchFrame == <<doc, change_blocks, idx, events, origin, changes, all_changes,
                dpc, result, json_text, loaded, calls, lines, trace,
                ticket_data, scan_i, comments_found,
                download_url, fields>>

InitFetch ==
  /\ page \in CsvPages
  /\ (page.status # 200 => page.hdr = "plain" /\ page.rows = <<>>)
  /\ doc = <<>>
  /\ pc = "f_start"
  /\ change_blocks = <<>>
  /\ idx = 0
  /\ events = <<>>
  /\ origin = <<>>
  /\ changes = <<>>
  /\ all_changes = <<>>
  /\ dpc = "start"
  /\ result = <<>>
  /\ json_text = <<>>
  /\ loaded = <<>>
  /\ calls = <<>>
  /\ lines = <<>>
  /\ tickets = <<>>
  /\ files = <<>>
  /\ trace = <<>>
  /\ ticket_data = <<>>
  /\ scan_i = 0
  /\ browser = "open"
  /\ returned = <<>>
  /\ csv_text = <<>>
  /\ comments_found = FALSE
  /\ download_url = Unbound
  /\ fields = <<>>

\* lines 239-241 with _fetch_csv (lines 71-81): any status but 200 raises
\* out of fetch_tickets, and the context manager ends the browser
FetchCsv ==
  /\ pc = "f_start"
  /\ IF page.status = 200
     THEN /\ csv_text' = CsvText(page)
          /\ pc' = "f_fetched"
     ELSE /\ pc' = "f_raised"
          /\ UNCHANGED csv_text
  /\ browser' = "closed"
  /\ UNCHANGED <<page, tickets, files, returned>>
  /\ UNCHANGED FetchFrame

\* line 245
FetchParse ==
  /\ pc = "f_fetched"
  /\ LET parsed == ParseCsv(csv_text)
     IN IF parsed.ok
        THEN /\ tickets' = parsed.tickets
             /\ pc' = "f_parsed"
        ELSE /\ pc' = "f_raised"
             /\ UNCHANGED tickets
  /\ UNCHANGED <<page, csv_text, files, returned, browser>>
  /\ UNCHANGED FetchFrame

\* lines 248-251
FetchFilter ==
  /\ pc = "f_parsed"
  /\ pc' = "f_filtered"
  /\ tickets' = FilterTickets(tickets)
  /\ UNCHANGED <<page, csv_text, files, returned, browser>>
  /\ UNCHANGED FetchFrame

\* lines 253-255: _save_csv, _save_json, _save_markdown
FetchSave ==
  /\ pc = "f_filtered"
  /\ pc' = "f_saved"
  /\ files' = [name \in {"tickets.csv", "tickets.json", "tickets.md"} |->
                 CASE name = "tickets.csv" -> csv_text
                   [] name = "tickets.json" -> Dumps(TicketsPy(tickets), 0)
                   [] name = "tickets.md" -> TicketsMarkdown(tickets)]
  /\ UNCHANGED <<page, csv_text, tickets, returned, browser>>
  /\ UNCHANGED FetchFrame

\* line 260
FetchReturn ==
  /\ pc = "f_saved"
  /\ pc' = "f_done"
  /\ returned' = Some(tickets)
  /\ UNCHANGED <<page, csv_text, tickets, files, browser>>
  /\ UNCHANGED FetchFrame

NextFetch == FetchCsv \/ FetchParse \/ FetchFilter \/ FetchSave \/ FetchReturn

SpecFetch == InitFetch /\ [][NextFetch]_vars

\* ------------------------------------- what the export descriptions say
\* the ids of the rows whose resolution is neither rejected nor wontfix
\* in any letter case (every row when the export has no such column)
KeptIds ==
  {RowId(p) : p \in {q \in DOMAIN page.rows :
                       /\ page.rows[q].shape = "ok"
                       /\ page.hdr = "nores" \/ page.rows[q].res \in ResKept}}

RemovedIds ==
  {RowId(p) : p \in {q \in DOMAIN page.rows :
                       /\ page.rows[q].shape = "ok"
                       /\ page.hdr # "nores"
                       /\ page.rows[q].res \in ResRejected}}

IdsOf(ts) == {DictGet(ts[j], <<"id">>, <<>>) : j \in DOMAIN ts}

\* the ids of the tickets in the text of tickets.json
JsonIds(text) ==
  LET v == Loads(text)
  IN IF v.t # "list" THEN {<<"unreadable">>}
     ELSE {DictGet(v.v[j].v, <<"id">>, PyNone).v : j \in DOMAIN v.v}

\* the ids of the table rows in the text of tickets.md
MdIds(text) ==
  LET out == SplitOn(text, "\n")
      rows == {k \in DOMAIN out : StartsWith(out[k], <<"|", " ", "[", "#">>)}
  IN {SubSeq(out[k], 5, Least({m \in DOMAIN out[k] : out[k][m] = "]"}) - 1) :
        k \in rows}

\* the ids of the data rows in the text of tickets.csv
CsvIds(text) ==
  LET rows == SelectSeq(CsvReader(text), LAMBDA r : r # <<>>)
  IN {rows[j][1] : j \in 2..Len(rows)}

\* C22: no ticket of the list after the filter, of the returned list, of
\* tickets.json or of tickets.md comes from a row whose resolution is
\* rejected or wontfix in any letter case, with or without surrounding
\* blanks; the resolution of no listed ticket lower-cases to either word.
C22_NoRejected ==
  /\ pc \in {"f_filtered", "f_saved", "f_done"} =>
       /\ IdsOf(tickets) \cap RemovedIds = {}
       /\ \A j \in DOMAIN tickets :
            DictGet(tickets[j], <<"resolution">>, <<>>)
              \notin {<<"rejected">>, <<"Rejected">>, <<"REJECTED">>,
                      <<"wontfix">>, <<"WontFix">>}
  /\ pc \in {"f_saved", "f_done"} =>
       /\ JsonIds(files["tickets.json"]) \cap RemovedIds = {}
       /\ MdIds(files["tickets.md"]) \cap RemovedIds = {}
  /\ pc = "f_done" =>
       /\ returned # None
       /\ IdsOf(returned[1]) \cap RemovedIds = {}
       /\ IdsOf(returned[1]) = KeptIds

\* fetch_tickets has returned a ticket from an export that also held a row
\* marked Rejected with a capital letter and a row with a padded wontfix
C22_Witness ==
  /\ pc = "f_done"
  /\ returned # None /\ Len(returned[1]) = 1
  /\ page.hdr = "padded"
  /\ Len(page.rows) = 2
  /\ \E p \in DOMAIN page.rows : page.rows[p].res = <<"Rejected">>

\* C29 as claimed: after fetch_tickets has returned, tickets.csv,
\* tickets.json and tickets.md hold the tickets of the returned list and no
\* others; a row the filter removed is in none of them.
C29_Claimed ==
  pc = "f_done" =>
    /\ CsvIds(files["tickets.csv"]) = IdsOf(returned[1])
    /\ JsonIds(files["tickets.json"]) = IdsOf(returned[1])
    /\ MdIds(files["tickets.md"]) = IdsOf(returned[1])
    /\ (CsvIds(files["tickets.csv"]) \cup JsonIds(files["tickets.json"])
          \cup MdIds(files["tickets.md"])) \cap RemovedIds = {}

\* ============================================================ scrape
\* lines 235-277: the lines of the sections of the first n events
RECURSIVE MdSections(_, _)
MdSections(evs, n) ==
  IF n = 0 THEN <<>> ELSE MdSections(evs, n - 1) \o MdSection(evs[n])

\* _to_markdown as a whole
ToMarkdown(ticket_id, evs) ==
  Join(<<"\n">>, MdHeader(ticket_id, Len(evs)) \o MdSections(evs, Len(evs)))

\* _save (lines 279-291): the two files, named by the ticket id
SaveFiles(ticket_id, evs) ==
  [name \in {"history.json", "history.md"} |->
     IF name = "history.json" THEN Dumps(EventsPy(evs), 0)
     ELSE ToMarkdown(ticket_id, evs)]

\* the test of lines 355-362 reduced to its first branch
StatusRefused403Only(status) == status = 403

\* lines 355 and 359: the statuses on which scrape gives up
StatusRefused(status) == status = 403 \/ status # 200

\* a wait that raises ends scrape
AfterWaitRaising(outcome) ==
  IF outcome = "found" THEN "s_content" ELSE "s_raised"

\* lines 365-368: whatever wait_for_selector does, found, timed out or
\* failed, scrape goes on to line 370
AfterWait(outcome) == "s_content"

\* the page the server gives: its status, what the wait for #changelog does,
\* and the document (with no #changelog at all, or with these blocks)
ScrapePages ==
  {pg \in [status : {200, 403, 404, 500},
           wait : {"found", "timeout", "error"},
           changelog : BOOLEAN,
           bs : ConcPages \cup {<<>>}] :
     /\ pg.wait = "found" => pg.changelog
     /\ ~pg.changelog => pg.bs = <<>>}

ScrapeHtml(pg) == IF pg.changelog THEN RichDoc(pg.bs) ELSE <<>>

ScrapeFrame == <<page, change_blocks, idx, origin, changes, all_changes, dpc,
                 result, json_text, loaded, calls, lines, tickets,
                 ticket_data, scan_i, csv_text, comments_found,
                 download_url, fields>>

InitScrape ==
  /\ page \in ScrapePages
  /\ doc = <<>>
  /\ pc = "s_start"
  /\ change_blocks = <<>>
  /\ idx = 0
  /\ events = <<>>
  /\ origin = <<>>
  /\ changes = <<>>
  /\ all_changes = <<>>
  /\ dpc = "start"
  /\ AuxInit

\* lines 331-353: the browser is launched and the page is requested
ScrapeGoto ==
  /\ pc = "s_start"
  /\ pc' = "s_status"
  /\ browser' = "open"
  /\ trace' = trace \o <<"launch", "goto">>
  /\ UNCHANGED <<doc, events, files, returned>>
  /\ UNCHANGED ScrapeFrame

\* lines 355-362
ScrapeStatus ==
  /\ pc = "s_status"
  /\ IF StatusRefused(page.status)
     THEN /\ browser' = "closed"
          /\ trace' = trace \o <<"close", "return">>
          /\ returned' = Some(<<>>)
          /\ pc' = "s_done"
     ELSE /\ pc' = "s_wait"
          /\ UNCHANGED <<browser, trace, returned>>
  /\ UNCHANGED <<doc, events, files>>
  /\ UNCHANGED ScrapeFrame

\* lines 365-368
ScrapeWait ==
  /\ pc = "s_wait"
  /\ pc' = AfterWait(page.wait)
  /\ trace' = Append(trace, IF page.wait = "found" THEN "wait"
                            ELSE "wait_failed")
  /\ UNCHANGED <<doc, events, files, returned, browser>>
  /\ UNCHANGED ScrapeFrame

\* lines 370-371
ScrapeContent ==
  /\ pc = "s_content"
  /\ pc' = "s_parse"
  /\ doc' = ScrapeHtml(page)
  /\ browser' = "closed"
  /\ trace' = trace \o <<"content", "close">>
  /\ UNCHANGED <<events, files, returned>>
  /\ UNCHANGED ScrapeFrame

\* lines 374-377
ScrapeParse ==
  /\ pc = "s_parse"
  /\ pc' = "s_save"
  /\ events' = ParseChangelog(doc)
  /\ trace' = trace \o <<"parse", "summary">>
  /\ UNCHANGED <<doc, files, returned, browser>>
  /\ UNCHANGED ScrapeFrame

\* line 380
ScrapeSave ==
  /\ pc = "s_save"
  /\ pc' = "s_return"
  /\ files' = SaveFiles(TicketId, events)
  /\ trace' = Append(trace, "save")
  /\ UNCHANGED <<doc, events, returned, browser>>
  /\ UNCHANGED ScrapeFrame

\* line 383
ScrapeReturn ==
  /\ pc = "s_return"
  /\ pc' = "s_done"
  /\ returned' = Some(events)
  /\ trace' = Append(trace, "return")
  /\ UNCHANGED <<doc, events, files, browser>>
  /\ UNCHANGED ScrapeFrame

NextScrape ==
  \/ ScrapeGoto
  \/ ScrapeStatus
  \/ ScrapeWait
  \/ ScrapeContent
  \/ ScrapeParse
  \/ ScrapeSave
  \/ ScrapeReturn

SpecScrape == InitScrape /\ [][NextScrape]_vars

\* the positions at which scrape has ended: returned, or left by an exception
ScrapeEnded == {"s_done", "s_raised"}

\* scrape moves on from a position where it has not ended (every action
\* above is guarded by its position alone)
ScrapeAdvance ==
  /\ pc \notin ScrapeEnded
  /\ pc' \in {"s_status", "s_wait", "s_content", "s_parse", "s_save",
              "s_return", "s_done", "s_raised"}

\* the event loop runs the coroutine on: every await of scrape completes
SpecScrapeFair ==
  InitScrape /\ [][NextScrape]_vars /\ WF_pc(ScrapeAdvance)

\* what the list of the page is, from the description of its blocks
ScrapeExpected(pg) ==
  IF pg.changelog THEN EventsOfBlocks(RichDoc(pg.bs), ChangeBlocks(RichDoc(pg.bs)),
                                      Len(pg.bs))
  ELSE <<>>

\* C23: on a response whose status is 403 or anything but 200, scrape
\* closes the browser and returns the empty list, and at no moment reads
\* the content, parses or writes a file.
C23_RefusedStatus ==
  page.status # 200 =>
    /\ \A k \in DOMAIN trace : trace[k] \notin {"wait", "wait_failed", "content",
                                                "parse", "summary", "save"}
    /\ doc = <<>> /\ events = <<>> /\ files = <<>>
    /\ pc \in {"s_start", "s_status", "s_done"}
    /\ pc = "s_done" =>
         /\ returned = Some(<<>>)
         /\ browser = "closed"
         /\ trace = <<"launch", "goto", "close", "return">>

\* scrape has returned on a 404 response
C23_Witness ==
  /\ page.status = 404
  /\ pc = "s_done"
  /\ returned = Some(<<>>)
  /\ browser = "closed"

\* C24: after a 200 response, when the wait for #changelog times out or
\* fails, scrape still reads the content, closes the browser, then parses,
\* summarises and saves, in that order, and it ends by returning the parsed
\* list with both files written.
C24_WaitFailureGoesOn ==
  /\ [](page.status = 200 /\ page.wait # "found" =>
          /\ pc \notin {"s_raised"}
          /\ pc = "s_done" =>
               /\ trace = <<"launch", "goto", "wait_failed", "content", "close",
                            "parse", "summary", "save", "return">>
               /\ browser = "closed"
               /\ returned = Some(events)
               /\ DOMAIN files = {"history.json", "history.md"})
  /\ (page.status = 200 /\ page.wait # "found" /\ pc = "s_wait")
       ~> (pc = "s_done" /\ returned # None /\ files # <<>>)

\* scrape has returned a list of two events although the wait timed out
C24_Witness ==
  /\ page.status = 200
  /\ page.wait = "timeout"
  /\ pc = "s_done"
  /\ returned # None /\ Len(returned[1]) = 2
  /\ files # <<>>

\* ========================================= scrape_trac_ticket: comments
\* lines 105-113 (the parts the comment and attachment steps fill)
NewTicketData == [comments |-> <<>>, attachments |-> <<>>]

\* the number of selector patterns of lines 349-371
NumPatterns == 3

\* lines 392-399, 402-409 and 412-427 on one candidate element: the text
\* of the first selector of the pattern that gives a non-empty text,
\* stripped; "" when every selector fails or gives nothing
FirstText(raw) == IF Truthy(raw) THEN Strip(raw[1]) ELSE <<>>

\* the comment number taken from the position of the element in the list
CommentNumberByIndex(comments, k) == k

\* line 385
CommentNumber(comments, k) == Len(comments) + 1

\* lines 384-389 and 392-427
CommentData(comments, k, elem) ==
  [comment_number |-> CommentNumber(comments, k),
   author |-> FirstText(elem.author),
   timestamp |-> FirstText(elem.timestamp),
   text |-> FirstText(elem.text)]

\* lines 430-431
Accepted(comment_data) ==
  comment_data.author # <<>> \/ comment_data.text # <<>>

\* the loop of lines 383-432 over the first n elements of a pattern
RECURSIVE ExtractComments(_, _, _)
ExtractComments(comments, elems, n) ==
  IF n = 0 THEN comments
  ELSE LET before == ExtractComments(comments, elems, n - 1)
           comment_data == CommentData(before, n, elems[n])
       IN IF Accepted(comment_data) THEN Append(before, comment_data)
          ELSE before

\* the search stopping after the first pattern that matched elements
StopSearchOnMatch(comments, elems) == elems # <<>>

\* lines 434-435
StopSearch(comments, elems) == comments # <<>>

\* ------------------------------------------------ the pages with comments
MaxCandidates == 3

\* what the selectors of a pattern give on a candidate element: None when
\* none of them gives a text
Candidate(author, text) ==
  [author |-> author, timestamp |-> Some(<<"2", " ", "years", " ", "ago">>),
   text |-> text]

RejectedCandidates ==
  {Candidate(None, None), Candidate(Some(<<" ">>), None)}

AcceptedCandidates ==
  {Candidate(Some(<<" ", "alice", " ">>), Some(CommentBody)),
   Candidate(None, Some(CommentBody)),
   Candidate(Some(<<"bob">>), None)}

CommonMatches ==
  {<<>>, <<Candidate(None, None)>>, <<Candidate(Some(<<"bob">>), None)>>}

\* for each of the three patterns, the elements its container selector
\* matches; raises is the pattern whose locator call fails (0: none)
CommentPages ==
  {pg \in [changelog : BOOLEAN,
           raises : 0..NumPatterns,
           matches : {m \in OneFree(CommonMatches,
                                    SeqsUpTo(RejectedCandidates
                                               \cup AcceptedCandidates,
                                             MaxCandidates),
                                    NumPatterns) : Len(m) = NumPatterns}] :
     ~pg.changelog => pg.raises = 0 /\ \A p \in 1..NumPatterns : pg.matches[p] = <<>>}

CommentsFrame == <<doc, change_blocks, events, origin, changes, all_changes,
                   dpc, result, json_text, loaded, calls, lines, tickets,
                   scan_i, browser, returned, csv_text, download_url,
                   fields>>

InitComments ==
  /\ page \in CommentPages
  /\ doc = <<>>
  /\ pc = "c_start"
  /\ change_blocks = <<>>
  /\ idx = 0
  /\ events = <<>>
  /\ origin = <<>>
  /\ changes = <<>>
  /\ all_changes = <<>>
  /\ dpc = "start"
  /\ result = <<>>
  /\ json_text = <<>>
  /\ loaded = <<>>
  /\ calls = <<>>
  /\ lines = <<>>
  /\ tickets = <<>>
  /\ files = <<>>
  /\ trace = <<>>
  /\ ticket_data = NewTicketData
  /\ scan_i = 0
  /\ browser = "open"
  /\ returned = <<>>
  /\ csv_text = <<>>
  /\ comments_found = FALSE
  /\ download_url = Unbound
  /\ fields = <<>>

\* lines 341-346 and 373
CommentsStart ==
  /\ pc = "c_start"
  /\ pc' = IF page.changelog THEN "c_pattern" ELSE "c_done"
  /\ UNCHANGED <<page, idx, ticket_data, trace, comments_found, files>>
  /\ UNCHANGED CommentsFrame

\* one iteration of the loop of lines 375-435; a failing locator call
\* leaves through the except of line 450
TryPattern ==
  /\ pc = "c_pattern"
  /\ idx < NumPatterns
  /\ LET pattern == idx + 1
         comment_elements == page.matches[pattern]
         comments == ExtractComments(ticket_data.comments, comment_elements,
                                     Len(comment_elements))
     IN /\ trace' = Append(trace, pattern)
        /\ idx' = pattern
        /\ IF page.raises = pattern
           THEN /\ pc' = "c_done"
                /\ UNCHANGED <<ticket_data, comments_found>>
           ELSE IF comment_elements # <<>>
           THEN /\ comments_found' = TRUE
                /\ ticket_data' = [ticket_data EXCEPT !.comments = comments]
                /\ pc' = IF StopSearch(comments, comment_elements)
                         THEN "c_after" ELSE "c_pattern"
           ELSE UNCHANGED <<pc, ticket_data, comments_found>>
  /\ UNCHANGED <<page, files>>
  /\ UNCHANGED CommentsFrame

\* the loop of line 375 has run out of patterns
PatternsExhausted ==
  /\ pc = "c_pattern"
  /\ idx = NumPatterns
  /\ pc' = "c_after"
  /\ UNCHANGED <<page, idx, ticket_data, trace, comments_found, files>>
  /\ UNCHANGED CommentsFrame

\* lines 437-448
CommentsFinish ==
  /\ pc = "c_after"
  /\ pc' = "c_done"
  /\ files' = IF comments_found THEN files
              ELSE [name \in {"changelog_debug.html"} |-> <<"changelog">>]
  /\ UNCHANGED <<page, idx, ticket_data, trace, comments_found>>
  /\ UNCHANGED CommentsFrame

NextComments ==
  \/ CommentsStart
  \/ TryPattern
  \/ PatternsExhausted
  \/ CommentsFinish

SpecComments == InitComments /\ [][NextComments]_vars

\* ------------------------------------ what the page descriptions say
\* the candidates of pattern p that have an author or a text
Kept(p) ==
  SelectSeq(page.matches[p],
            LAMBDA e : e \in AcceptedCandidates)

\* the patterns whose locator call succeeds and that give a comment
Yielding == {p \in 1..NumPatterns : Kept(p) # <<>>}

\* the last pattern the search has to try
LastPattern ==
  LET stops == Yielding \cup ({page.raises} \ {0})
  IN IF stops = {} THEN NumPatterns ELSE Least(stops)

\* C25: at every moment the comments extracted so far are numbered 1, 2,
\* ... in list order, however many candidates were rejected and whichever
\* pattern gave them; at the end there is one comment for each candidate
\* of the pattern that has an author or a text.
C25_Contiguous ==
  /\ \A j \in DOMAIN ticket_data.comments :
       ticket_data.comments[j].comment_number = j
  /\ pc \in {"c_after", "c_done"} /\ page.changelog =>
       \/ Len(ticket_data.comments) = Len(Kept(LastPattern))
       \/ page.raises = LastPattern /\ ticket_data.comments = <<>>

\* two comments were extracted from a pattern whose first candidate was
\* rejected
C25_Witness ==
  /\ pc = "c_done"
  /\ Len(ticket_data.comments) = 2
  /\ trace # <<>>
  /\ Len(page.matches[trace[Len(trace)]]) = 3
  /\ page.matches[trace[Len(trace)]][1] \in RejectedCandidates

\* C26: the patterns are tried in the listed order from the first one; a
\* pattern is tried only when no earlier one gave an accepted comment; the
\* search ends at the first pattern that gives one, also after earlier
\* patterns that matched only rejected elements; the comments of the
\* result are the accepted candidates of that one pattern, in order.
C26_FirstYieldingPattern ==
  /\ trace = [k \in 1..Len(trace) |-> k]
  /\ \A k \in DOMAIN trace : \A q \in 1..(k - 1) : q \notin Yielding
  /\ pc \in {"c_after", "c_done"} /\ page.changelog =>
       /\ Len(trace) = LastPattern
       /\ page.raises # LastPattern =>
            /\ Len(ticket_data.comments) = Len(Kept(LastPattern))
            /\ \A j \in DOMAIN ticket_data.comments :
                 /\ ticket_data.comments[j].author
                      = FirstText(Kept(LastPattern)[j].author)
                 /\ ticket_data.comments[j].text
                      = FirstText(Kept(LastPattern)[j].text)

\* the third pattern gave the comments after the first matched nothing
\* and the second matched only elements that were rejected
C26_Witness ==
  /\ pc = "c_done"
  /\ trace = <<1, 2, 3>>
  /\ page.matches[1] = <<>>
  /\ page.matches[2] # <<>>
  /\ ticket_data.comments # <<>>

\* ====================================== scrape_trac_ticket: attachments
\* a path is the list of its components; an absolute path starts with "/"
OutputPath == << <<"ticket_data">> >>

\* line 24
AttachmentsDir == Append(OutputPath, <<"attachments">>)

\* the components of a file name: the runs between its slashes
NameParts(name) == SelectSeq(SplitOn(name, "/"), LAMBDA part : part # <<>>)

\* pathlib's dir / name (lines 562 and 585): an absolute name replaces the
\* directory
PathJoin(dir, name) ==
  IF name # <<>> /\ Head(name) = "/" THEN << <<"/">> >> \o NameParts(name)
  ELSE dir \o NameParts(name)

\* the file the operating system opens for a path: each ".." leaves the
\* directory reached so far
RECURSIVE Resolve(_, _)
Resolve(path, n) ==
  IF n = 0 THEN <<>>
  ELSE LET before == Resolve(path, n - 1)
       IN IF path[n] = <<"..">>
          THEN IF before = <<>> \/ before = << <<"/">> >> THEN before
               ELSE SubSeq(before, 1, Len(before) - 1)
          ELSE IF path[n] = <<".">> THEN before
          ELSE Append(before, path[n])

\* save_path.relative_to(output_path) (lines 571 and 593) compares the
\* components as written and raises ValueError when output_path is not a
\* prefix
RelativeOk(path) ==
  /\ Len(path) >= Len(OutputPath)
  /\ SubSeq(path, 1, Len(OutputPath)) = OutputPath

\* a file can be written at the path unless it names the attachments
\* directory itself or a place above it
Writable(path) ==
  LET file == Resolve(path, Len(path))
  IN /\ file # AttachmentsDir
     /\ file # OutputPath
     /\ file \notin {<<>>, << <<"/">> >>}

\* the entries of lines 567-572, 589-595 and 601-606 (att: the link the
\* entry was made for)
Entry(att, filename, method, url) ==
  [att |-> att, filename |-> filename, method |-> method, download_url |-> url]

\* lines 575-606: the handler of a failed browser download. With
\* download_url still unbound, line 581 raises inside the inner try and
\* line 604 raises again inside its handler, which leaves the loop through
\* the except of line 613
Fallback(p, att, filename, url, entries, written) ==
  LET save_path == PathJoin(AttachmentsDir, filename)
      failed == [entries |-> Append(entries, Entry(p, filename, "error", url)),
                 written |-> written, download_url |-> url, aborted |-> FALSE]
  IN IF url = Unbound
     THEN [entries |-> entries, written |-> written, download_url |-> url,
           aborted |-> TRUE]
     ELSE IF att.http # "ok" \/ ~Writable(save_path) THEN failed
     ELSE IF ~RelativeOk(save_path)
     THEN [failed EXCEPT !.written =
             written \cup {Resolve(save_path, Len(save_path))}]
     ELSE [entries |-> Append(entries,
                              Entry(p, filename, "http_request", url)),
           written |-> written \cup {Resolve(save_path, Len(save_path))},
           download_url |-> url, aborted |-> FALSE]

\* lines 475-611: one iteration of the loop over the attachment links
ProcessLink(p, att, url, entries, written) ==
  IF ~(Truthy(att.filename) /\ Truthy(att.href))
  THEN [entries |-> entries, written |-> written, download_url |-> url,
        aborted |-> FALSE]
  ELSE
    LET filename == Strip(att.filename[1])
        save_path == PathJoin(AttachmentsDir, filename)
        found == IF att.link = "found" THEN <<"raw-attachment", DigitOf[p + 1]>>
                 ELSE <<"format=raw", DigitOf[p + 1]>>
        saved == written \cup {Resolve(save_path, Len(save_path))}
    IN IF att.open = "fail"
       THEN Fallback(p, att, filename, url, entries, written)
       ELSE IF att.download = "fail" \/ ~Writable(save_path)
       THEN Fallback(p, att, filename, found, entries, written)
       ELSE IF ~RelativeOk(save_path)
       THEN Fallback(p, att, filename, found, entries, saved)
       ELSE [entries |-> Append(entries, Entry(p, filename, "browser", found)),
             written |-> saved, download_url |-> found, aborted |-> FALSE]

\* ----------------------------------------- the pages with attachments
MaxAttachments == 2

\* a link of the attachment list: its text and href, and what the server
\* does: the attachment page loads or not, a download link is found on it
\* or not, the browser download works or not, the plain request works or not
LinkDesc(filename, href, open, link, download, http) ==
  [filename |-> filename, href |-> href, open |-> open, link |-> link,
   download |-> download, http |-> http]

Href == Some(<<"/", "attachment", "/", "ticket", "/", "7", "/", "log", ".", "txt">>)

FileNames ==
  {Some(<<"log", ".", "txt">>), Some(<<" ", "log", ".", "txt", "\n">>),
   Some(<<" ">>), Some(<<"..", "/", "..", "/", "evil", ".", "sh">>),
   Some(<<"/", "etc", "/", "cron", ".", "d", "/", "evil">>),
   Some(<<"sub", "/", "log", ".", "txt">>)}

CommonLinks ==
  {LinkDesc(Some(<<"log", ".", "txt">>), Href, "ok", "found", "ok", "ok"),
   LinkDesc(Some(<<"core", ".", "dump">>), Href, "ok", "none", "fail", "fail")}

FreeLinks ==
  {LinkDesc(f, Href, o, "found", d, h) :
     f \in FileNames, o \in {"ok", "fail"}, d \in {"ok", "fail"},
     h \in {"ok", "fail"}}
    \cup {LinkDesc(None, Href, "ok", "found", "ok", "ok"),
          LinkDesc(Some(<<>>), Href, "ok", "found", "ok", "ok"),
          LinkDesc(Some(<<"log", ".", "txt">>), None, "ok", "found", "ok", "ok")}

AttachPages == [links : OneFree(CommonLinks, FreeLinks, MaxAttachments)]

AttachFrame == <<doc, change_blocks, events, origin, changes, all_changes,
                 dpc, result, json_text, loaded, calls, lines, tickets,
                 scan_i, browser, returned, csv_text, comments_found, fields>>

InitAttach ==
  /\ page \in AttachPages
  /\ doc = <<>>
  /\ pc = "a_start"
  /\ change_blocks = <<>>
  /\ idx = 0
  /\ events = <<>>
  /\ origin = <<>>
  /\ changes = <<>>
  /\ all_changes = <<>>
  /\ dpc = "start"
  /\ result = <<>>
  /\ json_text = <<>>
  /\ loaded = <<>>
  /\ calls = <<>>
  /\ lines = <<>>
  /\ tickets = <<>>
  /\ files = {}
  /\ trace = <<>>
  /\ ticket_data = NewTicketData
  /\ scan_i = 0
  /\ browser = "open"
  /\ returned = <<>>
  /\ csv_text = <<>>
  /\ comments_found = FALSE
  /\ download_url = Unbound
  /\ fields = <<>>

\* lines 458-472: without an #attachments element the wait raises and the
\* except of line 613 ends the step
AttachStart ==
  /\ pc = "a_start"
  /\ pc' = IF page.links = <<>> THEN "a_done" ELSE "a_loop"
  /\ UNCHANGED <<page, idx, ticket_data, files, trace, download_url>>
  /\ UNCHANGED AttachFrame

\* lines 474-611, one link
AttachLink ==
  /\ pc = "a_loop"
  /\ idx < Len(page.links)
  /\ LET out == ProcessLink(idx + 1, page.links[idx + 1], download_url,
                            ticket_data.attachments, files)
     IN /\ ticket_data' = [ticket_data EXCEPT !.attachments = out.entries]
        /\ files' = out.written
        /\ download_url' = out.download_url
        /\ pc' = IF out.aborted THEN "a_done" ELSE "a_loop"
  /\ idx' = idx + 1
  /\ trace' = Append(trace, idx + 1)
  /\ UNCHANGED page
  /\ UNCHANGED AttachFrame

\* the loop of line 474 has run out of links
AttachEnd ==
  /\ pc = "a_loop"
  /\ idx = Len(page.links)
  /\ pc' = "a_done"
  /\ UNCHANGED <<page, idx, ticket_data, files, trace, download_url>>
  /\ UNCHANGED AttachFrame

NextAttach == AttachStart \/ AttachLink \/ AttachEnd

SpecAttach == InitAttach /\ [][NextAttach]_vars

\* the links that have both a file name and an href
Complete == {p \in DOMAIN page.links :
               /\ page.links[p].filename \notin {None, Some(<<>>)}
               /\ page.links[p].href \notin {None, Some(<<>>)}}

\* C27 as claimed: when the attachment step has ended, every link with a
\* file name and an href has exactly one entry in the attachments list,
\* whether the browser download worked, the plain request worked or both
\* failed; no failure stops the links after it from being processed.
C27_Claimed ==
  pc = "a_done" =>
    /\ trace = [k \in 1..Len(page.links) |-> k]
    /\ \A p \in Complete :
         Cardinality({j \in DOMAIN ticket_data.attachments :
                        ticket_data.attachments[j].att = p}) = 1

\* C28 as claimed: every file written lies inside the attachments
\* directory of the output directory.
C28_Claimed ==
  \A file \in files :
    /\ Len(file) > Len(AttachmentsDir)
    /\ SubSeq(file, 1, Len(AttachmentsDir)) = AttachmentsDir

\* =========================================== extract_fields_from_row
\* s.rstrip(':')
RECURSIVE RStripColon(_)
RStripColon(s) ==
  IF s # <<>> /\ s[Len(s)] = ":" THEN RStripColon(SubSeq(s, 1, Len(s) - 1))
  ELSE s

\* line 154
HeaderClean(text) == Lower(RStripColon(Strip(text)))

\* lines 164-211: the value of a td. A plain cell gives its stripped text;
\* for a select (an input, a textarea) a failing read is swallowed by the
\* inner try and leaves None
ValueClean(td) ==
  IF td.kind = "plain" THEN Some(Strip(td.text))
  ELSE IF td.fault = "content" \/ td.text = <<>> THEN None
  ELSE Some(Strip(td.text))

\* what one iteration of the loop of lines 148-223 does at index i
\* (0-based): the kind of the iteration and the field it stores, if any.
\* raised: an inspection raised and the except of line 221 ran.
ScanAt(children, i) ==
  LET current == children[i + 1]
      nothing == [kind |-> "single", field |-> None]
  IN IF current.fault = "tag" THEN [kind |-> "raised", field |-> None]
     ELSE IF current.tag # "th" THEN nothing
     ELSE IF current.fault = "content" THEN [kind |-> "raised", field |-> None]
     ELSE IF ~(i + 1 < Len(children)) THEN nothing
     ELSE LET td_elem == children[i + 2]
          IN IF td_elem.fault = "tag" THEN [kind |-> "raised", field |-> None]
             ELSE IF td_elem.tag # "td" THEN nothing
             ELSE IF td_elem.kind = "plain" /\ td_elem.fault = "content"
             THEN [kind |-> "raised", field |-> None]
             ELSE LET header_clean == HeaderClean(current.text)
                      value_clean == ValueClean(td_elem)
                  IN [kind |-> "pair",
                      field |-> IF header_clean # <<>> /\ Truthy(value_clean)
                                THEN Some(<<header_clean, value_clean[1]>>)
                                ELSE None]

\* the index moving on by one after a pair as well
ScanAdvanceByOne(kind) == 1

\* lines 216, 219 and 222
ScanAdvance(kind) == IF kind = "pair" THEN 2 ELSE 1

\* ------------------------------------------------------------ the rows
MaxChildren == 3

Child(tag, kind, fault, text) ==
  [tag |-> tag, kind |-> kind, fault |-> fault, text |-> text]

RowChildren ==
  {Child("th", "plain", f, <<" ", "Status", ":", " ">>) :
     f \in {"none", "tag", "content"}}
    \cup {Child("td", "plain", f, <<" ", "new", " ">>) :
            f \in {"none", "tag", "content"}}
    \cup {Child("td", "select", f, <<"new">>) : f \in {"none", "content"}}
    \cup {Child("th", "plain", "none", <<" ", ":">>),
          Child("span", "plain", "none", <<"x">>),
          Child("span", "plain", "tag", <<"x">>)}

\* the children of the row; gone: the locator call of line 141 raises
RowPages == [children : SeqsUpTo(RowChildren, MaxChildren), gone : BOOLEAN]

RowFrame == <<doc, change_blocks, idx, events, origin, changes, all_changes,
              dpc, result, json_text, loaded, calls, lines, tickets, files,
              ticket_data, browser, csv_text, comments_found, download_url>>

InitRow ==
  /\ page \in RowPages
  /\ doc = <<>>
  /\ pc = "r_start"
  /\ change_blocks = <<>>
  /\ idx = 0
  /\ events = <<>>
  /\ origin = <<>>
  /\ changes = <<>>
  /\ all_changes = <<>>
  /\ dpc = "start"
  /\ AuxInit

\* lines 138-147: an empty row, or a failing locator call, returns at once
RowStart ==
  /\ pc = "r_start"
  /\ IF page.gone \/ page.children = <<>>
     THEN /\ pc' = "r_done"
          /\ returned' = Some(<<>>)
     ELSE /\ pc' = "r_loop"
          /\ UNCHANGED returned
  /\ UNCHANGED <<page, scan_i, fields, trace>>
  /\ UNCHANGED RowFrame

\* one iteration of the loop of lines 148-223
RowScan ==
  /\ pc = "r_loop"
  /\ scan_i < Len(page.children)
  /\ LET at == ScanAt(page.children, scan_i)
     IN /\ scan_i' = scan_i + ScanAdvance(at.kind)
        /\ fields' = IF at.field # None
                     THEN DictSet(fields, at.field[1][1], at.field[1][2])
                     ELSE fields
        /\ trace' = Append(trace, [current |-> scan_i, kind |-> at.kind])
  /\ UNCHANGED <<page, pc, returned>>
  /\ UNCHANGED RowFrame

\* line 227, once the test of line 148 fails
RowReturn ==
  /\ pc = "r_loop"
  /\ scan_i >= Len(page.children)
  /\ pc' = "r_done"
  /\ returned' = Some(fields)
  /\ UNCHANGED <<page, scan_i, fields, trace>>
  /\ UNCHANGED RowFrame

NextRow == RowStart \/ RowScan \/ RowReturn

SpecRow == InitRow /\ [][NextRow]_vars

\* the awaits of the loop complete, so the coroutine goes on
SpecRowFair == InitRow /\ [][NextRow]_vars /\ WF_vars(NextRow)

\* a th at index i (0-based) directly followed by a td, both inspected
\* without an exception
PairAt(i) ==
  /\ i + 1 < Len(page.children)
  /\ page.children[i + 1].tag = "th" /\ page.children[i + 1].fault = "none"
  /\ page.children[i + 2].tag = "td"
  /\ page.children[i + 2].fault # "tag"
  /\ ~(page.children[i + 2].kind = "plain"
         /\ page.children[i + 2].fault = "content")

\* C30: the scan ends for every row; each iteration moves the index on, by
\* 2 after a th directly followed by a td and by 1 otherwise, also when an
\* inspection raises; no child is the current element twice; no td is
\* paired with two th.
C30_ScanTerminates ==
  /\ [][/\ scan_i' = scan_i + (IF PairAt(scan_i) THEN 2 ELSE 1)
        /\ scan_i < Len(page.children)]_scan_i
  /\ [](/\ \A j, k \in DOMAIN trace :
             j < k => trace[j].current < trace[k].current
        /\ \A j, k \in DOMAIN trace :
             /\ trace[j].kind = "pair" /\ trace[k].kind = "pair"
             /\ trace[j].current + 1 = trace[k].current + 1
             => j = k
        /\ \A k \in DOMAIN trace :
             trace[k].kind = "pair" =>
               \A j \in DOMAIN trace : trace[j].current # trace[k].current + 1
        /\ Len(trace) <= Len(page.children)
        /\ scan_i <= Len(page.children) + 1)
  /\ <>(pc = "r_done" /\ returned # None)

\* the scan of a row of three children has ended after a pair and after an
\* iteration in which an inspection raised
C30_Witness ==
  /\ pc = "r_done"
  /\ Len(page.children) = 3
  /\ \E j, k \in DOMAIN trace :
       trace[j].kind = "pair" /\ trace[k].kind = "raised"

====
